---- MODULE Spec2Model ----
(***************************************************************************)
(* Verification model of the ObradorIA agent: the LLM tool-use loop        *)
(* (app/core/agent.py), the tool executor (app/core/tools.py), the         *)
(* Anthropic retry policy (app/llm/anthropic.py), the fan-out budget       *)
(* pipeline and the conversational state machine                           *)
(* (app/core/orchestrator.py, app/core/conversation.py,                    *)
(* app/core/extractor.py), the provider adapters (app/llm/anthropic.py,    *)
(* app/llm/openai.py, app/llm/ollama.py) and the concurrency gate of the   *)
(* item-resolution tool (app/core/tools.py).                               *)
(*                                                                         *)
(* Further components: the staging slot between the batch tool and the     *)
(* save tool (app/core/tools.py) and the structure generator               *)
(* (app/core/budget_generator.py).                                         *)
(*                                                                         *)
(* Each component has its own specification (SpecAgent, SpecRetry,         *)
(* SpecPipe, SpecConv, SpecAdapter, SpecGate, SpecSlot, SpecGen,           *)
(* SpecStore for the session store used on its own); the variables of the  *)
(* other components keep their initial values.                             *)
(***************************************************************************)
EXTENDS Integers, Sequences, FiniteSets, TLC

VARIABLES
    \* ---- BudgetAgent.process_stream (agent.py) ----
    a_pc,          \* position of the run: "start" | "call" | "tools" | "done"
    a_script,      \* the scripted provider and the scripted tool handlers
    a_historico,   \* caller-supplied history (_agent_sessions[session_id])
    a_hist0,       \* the caller-supplied history as it was before the run
    a_messages,    \* local `messages` list of the run
    a_iteration,   \* loop variable `iteration` (number of completed passes)
    a_pending,     \* tool calls of the current reply not yet executed
    a_events,      \* events yielded so far (etapa tags)
    a_calls,       \* number of complete_with_tools calls made
    a_execs,       \* number of execute_tool calls made
    a_requested,   \* number of tool calls requested by the replies so far
    a_last,        \* last execute_tool invocation: arguments and result
    \* ---- AnthropicProvider._post_with_retry (llm/anthropic.py) ----
    r_pc,          \* "idle" | "post" | "done"
    r_script,      \* the responses the server gives, in order
    r_attempt,     \* loop variable `attempt`
    r_posts,       \* number of POSTs sent
    r_delays,      \* the delays slept, in order
    r_result,      \* "none" | "reply" | "raised"
    \* ---- budget pipeline (orchestrator.py) ----
    p_pc,          \* "idle" | "begin" | "load" | "search" | "searching" |
                   \* "pricing" | "pricing_calls" |
                   \* "synth" | "persist" | "complete" | "done" | "raised"
    p_variant,     \* "base": BudgetOrchestrator.process_stream,
                   \* "conv": ConversationalOrchestrator._processar_orcamento
    p_unidades,    \* dados.quantidade, the requested unit count
    p_itens,       \* itens_para_processar
    p_busca,       \* resultados_busca, one search result per item
    p_precos,      \* precos_map: matched code -> price or NoVal
    p_calls,       \* collaborator calls made: [search |-> n, pricing |-> n]
    p_resultado,   \* ResultadoOrcamento
    p_events,      \* events yielded so far (etapa tags)
    p_voltou,      \* the calls of the current gather that have returned, in
                   \* the order they returned (item indexes, then codes)
    \* ---- conversational flow (orchestrator.py, conversation.py) ----
    c_sessao,      \* the session of ConversationManager._sessions under study
    c_req,         \* per request slot: position and inputs of the request
    c_ev,          \* per request slot: events the request has yielded
    c_started,     \* number of requests started so far
    c_roteiro,     \* requests that have followed the guided script, or Fora
    c_diretas,     \* session attributes assigned outside ConversationManager
    c_marcos,      \* how far the session got: "nenhum" | "resumo" | "confirmado"
    c_alterado,    \* an answer rewrote a field since the summary was last shown
    \* ---- provider adapters: complete_with_tools (llm/*.py) ----
    d_pc,          \* "idle" | "begin" | "post" | "parse" | "done" | "raised"
    d_adapter,     \* "anthropic" | "openai" | "ollama"
    d_messages,    \* the generic message history passed in
    d_system,      \* whether a system prompt is passed in
    d_payload,     \* payload["messages"], the converted history
    d_statuses,    \* status codes of the responses received so far
    d_data,        \* the vendor reply of the successful response
    d_result,      \* the LLMResponseWithTools returned
    \* ---- item-resolution tool: _processar_item under _semaphore (tools.py) ----
    g_pc,          \* per item of the batch: position of its _processar_item
    g_value,       \* _semaphore._value, the permits left
    \* ---- staging slot between the batch tool and the save tool (tools.py) ----
    s_slot,        \* _ultimo_orcamento_processado: the staged batch, or <<>>
    s_ultimo,      \* the batch of the processar call that completed last
    s_tasks,       \* per tool call in flight: its handler's position and locals
    s_inicio,      \* per tool call started: s_ultimo when it was called
    s_log,         \* the stage and item calls sent to the Spring client
    \* ---- gerar_estrutura_orcamento (budget_generator.py) ----
    e_pc,          \* "idle" | "call" | "reply" | "done" | "raised"
    e_usar_cot,    \* the usar_cot argument of the current invocation
    e_replies,     \* what llm_provider.complete does, call after call
    e_prompts,     \* the prompts of the calls made so far
    e_result,      \* the EstruturaOrcamento returned
    \* ---- ConversationManager used on its own (conversation.py) ----
    k_sessao,      \* the session the store holds, or NoSessao
    k_ops          \* the store operations called so far

agentVars == <<a_pc, a_script, a_historico, a_hist0, a_messages, a_iteration,
               a_pending, a_events, a_calls, a_execs, a_requested, a_last>>

retryVars == <<r_pc, r_script, r_attempt, r_posts, r_delays, r_result>>

pipeVars == <<p_pc, p_variant, p_unidades, p_itens, p_busca, p_precos,
              p_calls, p_resultado, p_events, p_voltou>>

convVars == <<c_sessao, c_req, c_ev, c_started, c_roteiro, c_diretas, c_marcos,
             c_alterado>>

adapterVars == <<d_pc, d_adapter, d_messages, d_system, d_payload, d_statuses,
                 d_data, d_result>>

gateVars == <<g_pc, g_value>>

slotVars == <<s_slot, s_ultimo, s_tasks, s_inicio, s_log>>

genVars == <<e_pc, e_usar_cot, e_replies, e_prompts, e_result>>

storeVars == <<k_sessao, k_ops>>

vars == <<agentVars, retryVars, pipeVars, convVars, adapterVars, gateVars,
          slotVars, genVars, storeVars>>

\* the variables each component leaves alone
notAgent ==
    <<retryVars, pipeVars, convVars, adapterVars, gateVars, slotVars, genVars, storeVars>>

notRetry ==
    <<agentVars, pipeVars, convVars, adapterVars, gateVars, slotVars, genVars, storeVars>>

notPipe ==
    <<agentVars, retryVars, convVars, adapterVars, gateVars, slotVars, genVars, storeVars>>

notConv ==
    <<agentVars, retryVars, pipeVars, adapterVars, gateVars, slotVars, genVars, storeVars>>

notAdapter ==
    <<agentVars, retryVars, pipeVars, convVars, gateVars, slotVars, genVars, storeVars>>

notGate ==
    <<agentVars, retryVars, pipeVars, convVars, adapterVars, slotVars, genVars, storeVars>>

notSlot ==
    <<agentVars, retryVars, pipeVars, convVars, adapterVars, gateVars, genVars, storeVars>>

notGen ==
    <<agentVars, retryVars, pipeVars, convVars, adapterVars, gateVars, slotVars, storeVars>>

notStore ==
    <<agentVars, retryVars, pipeVars, convVars, adapterVars, gateVars, slotVars, genVars>>

----------------------------------------------------------------------------
(* Generic helpers *)

Count(seq, x) == Cardinality({i \in DOMAIN seq : seq[i] = x})

Last(seq) == seq[Len(seq)]

NoVal == "none"

\* the id slot of a message that is not a tool result
NoId == <<>>

----------------------------------------------------------------------------
(* A component that takes no part in a specification rests in its idle state *)

AgentIdle ==
    /\ a_pc = "idle"
    /\ a_script = NoVal
    /\ a_historico = <<>>
    /\ a_hist0 = <<>>
    /\ a_messages = <<>>
    /\ a_iteration = 0
    /\ a_pending = <<>>
    /\ a_events = <<>>
    /\ a_calls = 0
    /\ a_execs = 0
    /\ a_requested = 0
    /\ a_last = NoVal

RetryIdle ==
    /\ r_pc = "idle"
    /\ r_script = <<>>
    /\ r_attempt = 0
    /\ r_posts = 0
    /\ r_delays = <<>>
    /\ r_result = "none"

PipeIdle ==
    /\ p_pc = "idle"
    /\ p_variant = NoVal
    /\ p_unidades = 0
    /\ p_itens = <<>>
    /\ p_busca = <<>>
    /\ p_precos = <<>>
    /\ p_calls = [search |-> 0, pricing |-> 0]
    /\ p_resultado = NoVal
    /\ p_events = <<>>
    /\ p_voltou = <<>>

\* request slots: requests that may be in flight at the same time
Slots == {1, 2}

\* no session stored under the id
NoSessao ==
    [existe |-> FALSE, vencida |-> FALSE, fase |-> NoVal, campos |-> <<>>,
     campos_pendentes |-> <<>>]

\* no text: texto_usuario is None or ""
SemTexto ==
    [vazio |-> TRUE, uf |-> FALSE, tipo |-> "none", padrao |-> FALSE,
     quantidade |-> "none", mes |-> FALSE, ano |-> FALSE]

SemResposta == [campo |-> NoVal, valido |-> FALSE]

FreeReq ==
    [pc |-> "free", novo |-> FALSE, texto |-> SemTexto, resposta |-> SemResposta,
     confirmacao |-> NoVal]

ConvIdle ==
    /\ c_sessao = NoSessao
    /\ c_req = [r \in Slots |-> FreeReq]
    /\ c_ev = [r \in Slots |-> <<>>]
    /\ c_started = 0
    /\ c_roteiro = 0
    /\ c_diretas = {}
    /\ c_marcos = "nenhum"
    /\ c_alterado = FALSE

\* no vendor reply received
NoData == [n_calls |-> 0, sinal |-> NoVal, com_id |-> TRUE]

\* no LLMResponseWithTools returned
NoResult == [tool_calls |-> <<>>, stop_reason |-> NoVal]

AdapterIdle ==
    /\ d_pc = "idle"
    /\ d_adapter = NoVal
    /\ d_messages = <<>>
    /\ d_system = FALSE
    /\ d_payload = <<>>
    /\ d_statuses = <<>>
    /\ d_data = NoData
    /\ d_result = NoResult

\* asyncio.Semaphore(5)
PERMITS == 5

GateIdle ==
    /\ g_pc = <<>>
    /\ g_value = PERMITS

\* the two sessions whose tool calls may be in flight at once
Tasks == {1, 2}

\* no tool call: the handler position and its locals
NoTask ==
    [kind |-> "none", pc |-> "done", id |-> 0, itens |-> <<>>, etapas_data |-> <<>>,
     idx |-> 0, resultado |-> NoVal]

SlotIdle ==
    /\ s_slot = <<>>
    /\ s_ultimo = <<>>
    /\ s_tasks = [t \in Tasks |-> NoTask]
    /\ s_inicio = <<>>
    /\ s_log = <<>>

\* no EstruturaOrcamento returned
NoEstrutura == [sucesso |-> FALSE, erro |-> NoVal]

GenIdle ==
    /\ e_pc = "idle"
    /\ e_usar_cot = FALSE
    /\ e_replies = <<>>
    /\ e_prompts = <<>>
    /\ e_result = NoEstrutura

StoreIdle ==
    /\ k_sessao = NoSessao
    /\ k_ops = <<>>

----------------------------------------------------------------------------
(* BudgetAgent: constants and bounds *)

MAX_ITERATIONS == 30

\* largest number of tool calls in one reply of the scripted provider
MaxCalls == 2
\* a scripted provider stops (final reply or failure) at pass 0..MaxStop,
\* at the last pass allowed by the cap, or never
MaxStop == 2

ToolNames == <<"buscar_orcamento_referencia", "processar_itens_orcamento",
               "salvar_orcamento", "ferramenta_desconhecida">>

TOOL_HANDLERS == {"buscar_orcamento_referencia", "processar_itens_orcamento",
                  "salvar_orcamento"}

\* TOOL_EVENT_MAP: tool name -> <<start event, end event>>
TOOL_EVENT_MAP ==
    [n \in TOOL_HANDLERS |->
        CASE n = "buscar_orcamento_referencia" -> <<"load_base", "load_base_done">>
          [] n = "processar_itens_orcamento"   -> <<"search", "search_done">>
          [] n = "salvar_orcamento"            -> <<"persist", "persist_done">>]

\* message constructors; every message carries the same keys, unused ones
\* hold NoVal / the empty list
UserMsg(text) ==
    [role |-> "user", content |-> text, tool_calls |-> <<>>,
     tool_call_id |-> NoId, is_error |-> FALSE]

AssistantMsg(text, calls) ==
    [role |-> "assistant", content |-> text, tool_calls |-> calls,
     tool_call_id |-> NoId, is_error |-> FALSE]

ToolMsgNoId(result) ==
    [role |-> "tool", content |-> result.content, tool_calls |-> <<>>,
     tool_call_id |-> NoId, is_error |-> result.is_error]

ToolMsg(result) ==
    [role |-> "tool", content |-> result.content, tool_calls |-> <<>>,
     tool_call_id |-> result.tool_call_id, is_error |-> result.is_error]

----------------------------------------------------------------------------
(* The scripted provider and the scripted tool handlers.  A script fixes,   *)
(* for every pass of the loop, what complete_with_tools returns and how the *)
(* handler of each requested tool behaves.                                  *)

StopSet == (0 .. MaxStop) \cup {MAX_ITERATIONS - 1, MAX_ITERATIONS}

Scripts ==
    [calls  : 1 .. MaxCalls,     \* tool calls per reply
     vary   : BOOLEAN,           \* the number of calls changes from pass to pass
     stop   : StopSet,           \* pass at which the provider stops asking for tools
     end    : {"final", "raise"},\* what it does at that pass
     text   : BOOLEAN,           \* replies carry text as well
     shift  : 0 .. 3,            \* which tool names are asked for
     raises : BOOLEAN]           \* some handlers raise

NumCalls(sc, i) == IF sc.vary THEN 1 + ((i + sc.calls) % MaxCalls) ELSE sc.calls

CallName(sc, i, j) == ToolNames[((i + j + sc.shift) % 4) + 1]

\* how the handler behaves when called: it returns, or raises an Exception
HandlerOutcome(sc, i, j) ==
    IF sc.raises /\ ((i + j) % 2 = 0) THEN "raises" ELSE "returns"

\* ToolCall of llm/base.py: id, name (arguments are not interpreted here)
ScriptCalls(sc, i) ==
    [j \in 1 .. NumCalls(sc, i) |-> [id |-> <<i, j>>, name |-> CallName(sc, i, j)]]

\* the outcome of provider.complete_with_tools at pass i
ProviderReply(sc, i) ==
    IF i = sc.stop
      THEN IF sc.end = "raise"
             THEN [kind |-> "raise", content |-> "", tool_calls |-> <<>>]
             ELSE [kind |-> "reply", content |-> IF sc.text THEN "txt" ELSE "",
                   tool_calls |-> <<>>]
      ELSE [kind |-> "reply", content |-> IF sc.text THEN "txt" ELSE "",
            tool_calls |-> ScriptCalls(sc, i)]

----------------------------------------------------------------------------
(* execute_tool (tools.py) *)

ToolResult(id, content, err) ==
    [tool_call_id |-> id, content |-> content, is_error |-> err]

execute_tool_noflag(tool_call_id, tool_name, outcome) ==
    IF tool_name \notin TOOL_HANDLERS
      THEN ToolResult(tool_call_id, "tool desconhecida", FALSE)
      ELSE IF outcome = "returns"
             THEN ToolResult(tool_call_id, "content", FALSE)
             ELSE ToolResult(tool_call_id, "erro em tool", TRUE)

execute_tool(tool_call_id, tool_name, outcome) ==
    IF tool_name \notin TOOL_HANDLERS
      THEN ToolResult(tool_call_id, "tool desconhecida", TRUE)
      ELSE IF outcome = "returns"
             THEN ToolResult(tool_call_id, "content", FALSE)
             ELSE ToolResult(tool_call_id, "erro em tool", TRUE)

----------------------------------------------------------------------------
(* BudgetAgent.process_stream (agent.py) and the history bookkeeping of    *)
(* agent_stream (routes.py)                                                 *)

\* histories a caller can hold: what earlier completed runs stored
PriorHistories ==
    { <<>>, <<UserMsg("u0"), AssistantMsg("a0", <<>>)>> }

\* for iteration in range(MAX_ITERATIONS)
RangeHasNextOffByOne(iteration) == iteration <= MAX_ITERATIONS

RangeHasNext(iteration) == iteration < MAX_ITERATIONS

\* the assistant message built from a reply that asks for tools
ToolUseMsg(reply) ==
    AssistantMsg(reply.content,
                 [j \in DOMAIN reply.tool_calls |->
                    [id |-> reply.tool_calls[j].id, name |-> reply.tool_calls[j].name]])

\* events around one tool execution
StartEvents(name) == IF name \in TOOL_HANDLERS THEN <<TOOL_EVENT_MAP[name][1]>> ELSE <<>>

EndEvents(name) == IF name \in TOOL_HANDLERS THEN <<TOOL_EVENT_MAP[name][2]>> ELSE <<>>

AgentInit ==
    /\ a_pc = "start"
    /\ a_script \in Scripts
    /\ a_historico \in PriorHistories
    /\ a_hist0 = a_historico
    /\ a_messages = <<>>
    /\ a_iteration = 0
    /\ a_pending = <<>>
    /\ a_events = <<>>
    /\ a_calls = 0
    /\ a_execs = 0
    /\ a_requested = 0
    /\ a_last = [id |-> NoId, name |-> NoVal, outcome |-> NoVal,
                 result |-> ToolResult(NoId, NoVal, FALSE)]
    /\ RetryIdle
    /\ PipeIdle
    /\ ConvIdle
    /\ AdapterIdle
    /\ GateIdle
    /\ SlotIdle
    /\ GenIdle
    /\ StoreIdle

\* messages = historico, without the copy: the user message lands in the
\* caller's list
AgentStartSemCopia ==
    /\ a_pc = "start"
    /\ a_messages' = Append(a_historico, UserMsg("msg"))
    /\ a_historico' = Append(a_historico, UserMsg("msg"))
    /\ a_pc' = "call"
    /\ UNCHANGED <<a_script, a_hist0, a_iteration, a_pending,
                   a_events, a_calls, a_execs, a_requested, a_last>>
    /\ UNCHANGED notAgent

\* messages = list(historico); messages.append(user message)
AgentStart ==
    /\ a_pc = "start"
    /\ a_messages' = Append(a_historico, UserMsg("msg"))
    /\ a_pc' = "call"
    /\ UNCHANGED <<a_script, a_historico, a_hist0, a_iteration, a_pending,
                   a_events, a_calls, a_execs, a_requested, a_last>>
    /\ UNCHANGED notAgent

\* complete_with_tools raises: one error event, return
AgentLLMError ==
    /\ a_pc = "call"
    /\ RangeHasNext(a_iteration)
    /\ ProviderReply(a_script, a_iteration).kind = "raise"
    /\ a_calls' = a_calls + 1
    /\ a_events' = Append(a_events, "error")
    /\ a_pc' = "done"
    /\ UNCHANGED <<a_script, a_historico, a_hist0, a_messages, a_iteration,
                   a_pending, a_execs, a_requested, a_last>>
    /\ UNCHANGED notAgent

\* the reply carries tool calls: append the assistant message, emit its text
AgentToolUse ==
    /\ a_pc = "call"
    /\ RangeHasNext(a_iteration)
    /\ LET reply == ProviderReply(a_script, a_iteration) IN
         /\ reply.kind = "reply"
         /\ Len(reply.tool_calls) > 0
         /\ a_calls' = a_calls + 1
         /\ a_messages' = Append(a_messages, ToolUseMsg(reply))
         /\ a_events' = IF reply.content # "" THEN Append(a_events, "message")
                                                ELSE a_events
         /\ a_pending' = [j \in DOMAIN reply.tool_calls |->
                            [id |-> reply.tool_calls[j].id,
                             name |-> reply.tool_calls[j].name,
                             outcome |-> HandlerOutcome(a_script, a_iteration, j)]]
         /\ a_requested' = a_requested + Len(reply.tool_calls)
    /\ a_pc' = "tools"
    /\ UNCHANGED <<a_script, a_historico, a_hist0, a_iteration, a_execs, a_last>>
    /\ UNCHANGED notAgent

\* one pass of `for tc in response.tool_calls`; after the last call the loop
\* continues with the next iteration
AgentExecTool ==
    /\ a_pc = "tools"
    /\ Len(a_pending) > 0
    /\ LET tc == Head(a_pending)
           result == execute_tool(tc.id, tc.name, tc.outcome) IN
         /\ a_events' = a_events \o StartEvents(tc.name) \o EndEvents(tc.name)
         /\ a_messages' = Append(a_messages, ToolMsg(result))
         /\ a_last' = [id |-> tc.id, name |-> tc.name, outcome |-> tc.outcome,
                       result |-> result]
    /\ a_execs' = a_execs + 1
    /\ a_pending' = Tail(a_pending)
    /\ IF Len(a_pending) = 1
         THEN a_pc' = "call" /\ a_iteration' = a_iteration + 1
         ELSE UNCHANGED <<a_pc, a_iteration>>
    /\ UNCHANGED <<a_script, a_historico, a_hist0, a_calls, a_requested>>
    /\ UNCHANGED notAgent

\* AgentFinal without its `return`: the loop goes on after `complete`
AgentFinalNoReturn ==
    /\ a_pc = "call"
    /\ RangeHasNext(a_iteration)
    /\ LET reply == ProviderReply(a_script, a_iteration) IN
         /\ reply.kind = "reply"
         /\ Len(reply.tool_calls) = 0
         /\ a_messages' = Append(a_messages, AssistantMsg(reply.content, <<>>))
         /\ a_historico' = a_historico \o
                <<UserMsg("msg"), AssistantMsg(reply.content, <<>>)>>
    /\ a_calls' = a_calls + 1
    /\ a_events' = Append(a_events, "complete")
    /\ a_iteration' = a_iteration + 1
    /\ UNCHANGED <<a_pc, a_script, a_hist0, a_pending, a_execs,
                   a_requested, a_last>>
    /\ UNCHANGED notAgent

\* no tool calls: final assistant message, complete event; agent_stream then
\* stores the exchange in the session history
AgentFinal ==
    /\ a_pc = "call"
    /\ RangeHasNext(a_iteration)
    /\ LET reply == ProviderReply(a_script, a_iteration) IN
         /\ reply.kind = "reply"
         /\ Len(reply.tool_calls) = 0
         /\ a_messages' = Append(a_messages, AssistantMsg(reply.content, <<>>))
         /\ a_historico' = a_historico \o
                <<UserMsg("msg"), AssistantMsg(reply.content, <<>>)>>
    /\ a_calls' = a_calls + 1
    /\ a_events' = Append(a_events, "complete")
    /\ a_pc' = "done"
    /\ UNCHANGED <<a_script, a_hist0, a_iteration, a_pending, a_execs,
                   a_requested, a_last>>
    /\ UNCHANGED notAgent

\* the for loop ran out: iteration cap reached
AgentCap ==
    /\ a_pc = "call"
    /\ ~RangeHasNext(a_iteration)
    /\ a_events' = Append(a_events, "error")
    /\ a_pc' = "done"
    /\ UNCHANGED <<a_script, a_historico, a_hist0, a_messages, a_iteration,
                   a_pending, a_calls, a_execs, a_requested, a_last>>
    /\ UNCHANGED notAgent

AgentNext ==
    \/ AgentStart
    \/ AgentLLMError
    \/ AgentToolUse
    \/ AgentExecTool
    \/ AgentFinal
    \/ AgentCap

SpecAgent == AgentInit /\ [][AgentNext]_vars

----------------------------------------------------------------------------
(* Claims about the agent loop and the tool executor *)

TerminalEvents == {"complete", "error"}

CountIn(seq, S) == Cardinality({i \in DOMAIN seq : seq[i] \in S})

\* the provider of this run asks for tools at every pass
AlwaysToolUse == a_script.stop = MAX_ITERATIONS

\* C1: when every reply of complete_with_tools carries at least one tool
\* call, the run makes exactly MAX_ITERATIONS provider calls, has executed
\* every requested tool before each further provider call, and ends with
\* exactly one error event, its last event, and no complete event; no run
\* makes more than MAX_ITERATIONS provider calls.
C1_IterationCap ==
    /\ a_calls <= MAX_ITERATIONS
    /\ (a_pc \in {"call", "done"} /\ AlwaysToolUse) => a_execs = a_requested
    /\ (a_pc = "done" /\ AlwaysToolUse) =>
          /\ a_calls = MAX_ITERATIONS
          /\ a_requested >= MAX_ITERATIONS
          /\ Last(a_events) = "error"
          /\ Count(a_events, "error") = 1
          /\ Count(a_events, "complete") = 0

C1_Witness ==
    /\ a_pc = "done"
    /\ AlwaysToolUse
    /\ a_calls = MAX_ITERATIONS
    /\ Last(a_events) = "error"

\* every assistant message with N tool calls is directly followed by exactly
\* N tool messages carrying the call ids in call order
Paired(msgs) ==
    \A k \in DOMAIN msgs :
        msgs[k].role = "assistant" =>
            LET n == Len(msgs[k].tool_calls) IN
            /\ k + n <= Len(msgs)
            /\ \A j \in 1 .. n :
                  /\ msgs[k + j].role = "tool"
                  /\ msgs[k + j].tool_call_id = msgs[k].tool_calls[j].id
            /\ (k + n + 1 <= Len(msgs)) => msgs[k + n + 1].role # "tool"

\* C2: whenever complete_with_tools is about to be called, and when the run
\* has ended, every assistant message with N tool calls is immediately
\* followed by exactly N tool messages whose tool_call_id sequence is the
\* sequence of call ids, in order.
C2_ToolPairing == (a_pc \in {"call", "done"}) => Paired(a_messages)

C2_Witness ==
    /\ a_pc = "call"
    /\ \E k \in DOMAIN a_messages :
          /\ a_messages[k].role = "assistant"
          /\ Len(a_messages[k].tool_calls) = MaxCalls
          /\ k + MaxCalls < Len(a_messages)

\* C4: a run that has ended emitted exactly one terminal event (complete or
\* error) and it is the last event; a run that has not ended has emitted no
\* terminal event, so nothing is ever emitted after one.
C4_OneTerminalEvent ==
    /\ (a_pc = "done") =>
          /\ Len(a_events) > 0
          /\ Last(a_events) \in TerminalEvents
          /\ CountIn(a_events, TerminalEvents) = 1
    /\ (a_pc # "done") => CountIn(a_events, TerminalEvents) = 0

C4_Witness ==
    /\ a_pc = "done"
    /\ Last(a_events) = "complete"
    /\ a_execs > 0
    /\ Count(a_events, "message") > 0

\* C5: the result of execute_tool carries the id it was given; is_error is
\* true for an unregistered tool name and for a handler that raised, and
\* false for a handler that returned.
C5_ExecuteToolTotal ==
    (a_last.name # NoVal) =>
        /\ a_last.result.tool_call_id = a_last.id
        /\ a_last.result.is_error =
              (a_last.name \notin TOOL_HANDLERS \/ a_last.outcome = "raises")

C5_Witness ==
    /\ a_last.name = "ferramenta_desconhecida"
    /\ a_last.outcome = "returns"
    /\ a_last.result.is_error
    /\ a_last.result.tool_call_id = a_last.id

----------------------------------------------------------------------------
(* AnthropicProvider._post_with_retry (llm/anthropic.py)                    *)

MAX_RETRIES == 3

RETRY_BASE_DELAY == 1

\* value of a retry-after header, in seconds, when the server sends one
HintSeconds == 7

Statuses == {200, 429, 529, 400, 500}

\* a response: its status and its retry-after header (0: no header)
Responses == [status : Statuses, retry_after : {0, HintSeconds}]

\* what the server answers to the 1st, 2nd, ... POST of one request
RetryScripts ==
    { sc \in [1 .. MAX_RETRIES + 2 -> Responses] :
        \A i \in DOMAIN sc :
            /\ sc[i].retry_after = sc[1].retry_after
            /\ (i > 1 /\ sc[i - 1].status \notin {429, 529}) => sc[i] = sc[1] }

\* response.status_code == 429 or response.status_code == 529
IsOverloadOnly429(status) == status = 429

IsOverload(status) == status = 429 \/ status = 529

\* float(retry_after) if retry_after else RETRY_BASE_DELAY * (2 ** attempt)
RetryDelay(resp, attempt) ==
    IF resp.retry_after # 0 THEN resp.retry_after
                            ELSE RETRY_BASE_DELAY * (2 ^ attempt)

RetryInit ==
    /\ r_pc = "post"
    /\ r_script \in RetryScripts
    /\ r_attempt = 0
    /\ r_posts = 0
    /\ r_delays = <<>>
    /\ r_result = "none"
    /\ AgentIdle
    /\ PipeIdle
    /\ ConvIdle
    /\ AdapterIdle
    /\ GateIdle
    /\ SlotIdle
    /\ GenIdle
    /\ StoreIdle

\* POST answered 429/529 with retries left: sleep, next attempt
RetryBackoff ==
    /\ r_pc = "post"
    /\ r_attempt <= MAX_RETRIES
    /\ LET resp == r_script[r_posts + 1] IN
         /\ IsOverload(resp.status)
         /\ r_attempt < MAX_RETRIES
         /\ r_delays' = Append(r_delays, RetryDelay(resp, r_attempt))
    /\ r_posts' = r_posts + 1
    /\ r_attempt' = r_attempt + 1
    /\ UNCHANGED <<r_pc, r_script, r_result>>
    /\ UNCHANGED notRetry

\* POST answered with a status >= 400 that is not retried: raise_for_status raises
RetryRaise ==
    /\ r_pc = "post"
    /\ r_attempt <= MAX_RETRIES
    /\ LET resp == r_script[r_posts + 1] IN
         /\ ~(IsOverload(resp.status) /\ r_attempt < MAX_RETRIES)
         /\ resp.status >= 400
    /\ r_posts' = r_posts + 1
    /\ r_result' = "raised"
    /\ r_pc' = "done"
    /\ UNCHANGED <<r_script, r_attempt, r_delays>>
    /\ UNCHANGED notRetry

\* POST answered with success: return response.json()
RetryReturn ==
    /\ r_pc = "post"
    /\ r_attempt <= MAX_RETRIES
    /\ LET resp == r_script[r_posts + 1] IN
         /\ ~(IsOverload(resp.status) /\ r_attempt < MAX_RETRIES)
         /\ resp.status < 400
    /\ r_posts' = r_posts + 1
    /\ r_result' = "reply"
    /\ r_pc' = "done"
    /\ UNCHANGED <<r_script, r_attempt, r_delays>>
    /\ UNCHANGED notRetry

RetryNext ==
    \/ RetryBackoff
    \/ RetryRaise
    \/ RetryReturn

SpecRetry == RetryInit /\ [][RetryNext]_vars

\* number of leading 429/529 responses of a script
RECURSIVE LeadingOverload(_, _)
LeadingOverload(sc, i) ==
    IF i > Len(sc) \/ ~(sc[i].status \in {429, 529}) THEN 0
    ELSE 1 + LeadingOverload(sc, i + 1)

\* C9: with k leading 429/529 responses, k <= MAX_RETRIES, followed by a
\* success, exactly k+1 POSTs and k delays happen and the reply is returned;
\* when the first MAX_RETRIES+1 responses are all 429/529, exactly
\* MAX_RETRIES+1 POSTs are sent and an error is raised; any other status
\* >= 400 raises right after that response, with no further POST.
C9_BoundedRetry ==
    /\ r_posts <= MAX_RETRIES + 1
    /\ (r_pc = "done") =>
          LET k == LeadingOverload(r_script, 1) IN
          IF k > MAX_RETRIES
            THEN r_posts = MAX_RETRIES + 1 /\ r_result = "raised"
                 /\ Len(r_delays) = MAX_RETRIES
            ELSE /\ r_posts = k + 1
                 /\ Len(r_delays) = k
                 /\ r_result = IF r_script[k + 1].status = 200 THEN "reply"
                                                                 ELSE "raised"

\* 429, 429, 200: two delayed retries and one reply
C9_Witness ==
    /\ r_pc = "done"
    /\ r_script[1].status = 429
    /\ r_script[2].status = 529
    /\ r_script[3].status = 200
    /\ r_posts = 3
    /\ Len(r_delays) = 2
    /\ r_result = "reply"

----------------------------------------------------------------------------
(* The fan-out budget pipeline: BudgetOrchestrator.process_stream and       *)
(* ConversationalOrchestrator._processar_orcamento (orchestrator.py).       *)
(* Amounts are integers (the code uses floats).                             *)

\* most items a budget structure holds
MaxItems == 2
\* an item's quantity is 1 or MaxQty
MaxQty == 2
\* the requested unit count (dados.quantidade) is 1 or MaxUnits
MaxUnits == 2

Stages == {"Fundacao", "Cobertura"}

Codes == {"c1", "c2"}

\* an item of the structure, tagged with its stage
Items == [etapa_nome : Stages, quantidade : {1, MaxQty}]

ItemLists == UNION { [1 .. n -> Items] : n \in 0 .. MaxItems }

\* what vector_service.buscar_com_confianca does for one item: a best match,
\* no match, or an exception (database failure)
SearchOutcomes ==
    [kind : {"match"}, codigo : Codes] \cup
    { [kind |-> "none", codigo |-> NoVal], [kind |-> "raise", codigo |-> NoVal] }

\* PrecoComposicao: the two unit costs, each 0 when the reply leaves it out
PrecoComposicao ==
    { [found |-> TRUE, sem |-> 3, com |-> 5], [found |-> TRUE, sem |-> 0, com |-> 4],
      [found |-> TRUE, sem |-> 0, com |-> 0] }

\* the None that buscar_preco_composicao returns, and precos_map.get misses
SemPreco == [found |-> FALSE, sem |-> 0, com |-> 0]

\* what spring_client.buscar_preco_composicao does for one code: a price,
\* None (HTTPStatusError is caught), or an exception (transport failure)
PriceOutcomes ==
    [kind : {"price"}, preco : PrecoComposicao] \cup
    { [kind |-> "none", preco |-> SemPreco], [kind |-> "raise", preco |-> SemPreco] }

\* codigos_para_buscar: the set of codes of the items that have a match
CodigosParaBuscar(busca) ==
    { busca[i].codigo : i \in { j \in DOMAIN busca : busca[j].kind = "match" } }

\* one buscar_preco call per matched item
PricingCallsPerItem(busca) ==
    Cardinality({ j \in DOMAIN busca : busca[j].kind = "match" })

\* the calls gather starts: one buscar_preco per element of the set
PricingCalls(busca) ==
    Cardinality(CodigosParaBuscar(busca))

\* preco_info.custo_sem_desoneracao or preco_info.custo_com_desoneracao
PrecoUnitario(preco_info) ==
    IF preco_info.sem # 0 THEN preco_info.sem ELSE preco_info.com

\* the join with the total left at the item's own quantity
ItemProcessadoSemUnidades(item, busca, precos_map, unidades) ==
    LET temMatch == busca.kind = "match"
        preco_info == IF temMatch THEN precos_map[busca.codigo] ELSE SemPreco
        preco_unitario == IF temMatch /\ preco_info.found
                            THEN PrecoUnitario(preco_info) ELSE 0
    IN [etapa_nome |-> item.etapa_nome,
        codigo |-> busca.codigo,
        quantidade_ajustada |-> item.quantidade * unidades,
        preco_unitario |-> preco_unitario,
        preco_total |-> preco_unitario * item.quantidade,
        problema |-> IF ~temMatch THEN "Composicao SINAPI nao encontrada"
                     ELSE IF ~preco_info.found
                            THEN "Preco nao encontrado para UF/data"
                            ELSE NoVal]

\* the join of one item with its search result and the price map
ItemProcessado(item, busca, precos_map, unidades) ==
    LET temMatch == busca.kind = "match"
        preco_info == IF temMatch THEN precos_map[busca.codigo] ELSE SemPreco
        preco_unitario == IF temMatch /\ preco_info.found
                            THEN PrecoUnitario(preco_info) ELSE 0
        quantidade_ajustada == item.quantidade * unidades
    IN [etapa_nome |-> item.etapa_nome,
        codigo |-> busca.codigo,
        quantidade_ajustada |-> quantidade_ajustada,
        preco_unitario |-> preco_unitario,
        preco_total |-> preco_unitario * quantidade_ajustada,
        problema |-> IF ~temMatch THEN "Composicao SINAPI nao encontrada"
                     ELSE IF ~preco_info.found
                            THEN "Preco nao encontrado para UF/data"
                            ELSE NoVal]

\* etapas_dict[etapa_nome].itens.append(item); valor_total += preco_total,
\* creating the stage at its first item
AddToEtapasNoTotal(etapas, it) ==
    IF \E k \in DOMAIN etapas : etapas[k].nome = it.etapa_nome
      THEN [k \in DOMAIN etapas |->
              IF etapas[k].nome = it.etapa_nome
                THEN [etapas[k] EXCEPT !.itens = Append(@, it)]
                ELSE etapas[k]]
      ELSE Append(etapas, [nome |-> it.etapa_nome, itens |-> <<it>>,
                           valor_total |-> it.preco_total])

AddToEtapas(etapas, it) ==
    IF \E k \in DOMAIN etapas : etapas[k].nome = it.etapa_nome
      THEN [k \in DOMAIN etapas |->
              IF etapas[k].nome = it.etapa_nome
                THEN [etapas[k] EXCEPT !.itens = Append(@, it),
                                       !.valor_total = @ + it.preco_total]
                ELSE etapas[k]]
      ELSE Append(etapas, [nome |-> it.etapa_nome, itens |-> <<it>>,
                           valor_total |-> it.preco_total])

\* the loop `for r in resultados_busca` over items i..n
RECURSIVE MontarEtapas(_, _, _)
MontarEtapas(processados, i, etapas) ==
    IF i > Len(processados) THEN etapas
    ELSE MontarEtapas(processados, i + 1, AddToEtapas(etapas, processados[i]))

\* sum(e.valor_total for e in etapas_dict.values())
RECURSIVE SomaEtapas(_, _)
SomaEtapas(etapas, k) ==
    IF k > Len(etapas) THEN 0 ELSE etapas[k].valor_total + SomaEtapas(etapas, k + 1)

\* the items of the run joined with their search results and prices
Processados ==
    [i \in DOMAIN p_itens |->
        ItemProcessado(p_itens[i], p_busca[i], p_precos, p_unidades)]

ResultadoVazio ==
    [sucesso |-> FALSE, etapas |-> <<>>, valor_total |-> 0,
     codigo_orcamento_criado |-> NoVal]

\* a search call that has not returned yet
BuscaPendente == [kind |-> "pending", codigo |-> NoVal]

Range(seq) == {seq[i] : i \in DOMAIN seq}

\* gather returning at the first call that finishes
AlgumaVoltou(chamadas, voltou) == chamadas = {} \/ voltou # <<>>

\* asyncio.gather returns when every call it started has returned
TodasVoltaram(chamadas, voltou) == chamadas \subseteq Range(voltou)

PipeInit ==
    /\ p_pc = "begin"
    /\ p_variant \in {"base", "conv"}
    /\ p_unidades \in {1, MaxUnits}
    /\ p_itens = <<>>
    /\ p_busca = <<>>
    /\ p_precos = <<>>
    /\ p_calls = [search |-> 0, pricing |-> 0]
    /\ p_resultado = ResultadoVazio
    /\ p_events = <<>>
    /\ p_voltou = <<>>
    /\ AgentIdle
    /\ RetryIdle
    /\ ConvIdle
    /\ AdapterIdle
    /\ GateIdle
    /\ SlotIdle
    /\ GenIdle
    /\ StoreIdle

\* base variant, stage 1: extraction from the text succeeds
PipeExtraction ==
    /\ p_pc = "begin"
    /\ p_variant = "base"
    /\ p_events' = p_events \o <<"extraction", "extraction_done">>
    /\ p_pc' = "load"
    /\ UNCHANGED <<p_variant, p_unidades, p_itens, p_busca, p_precos, p_calls,
                   p_resultado>>
    /\ UNCHANGED p_voltou
    /\ UNCHANGED notPipe

\* base variant, stage 1: extraction fails, the run ends with an error event
PipeExtractionFail ==
    /\ p_pc = "begin"
    /\ p_variant = "base"
    /\ p_events' = p_events \o <<"extraction", "error">>
    /\ p_pc' = "done"
    /\ UNCHANGED <<p_variant, p_unidades, p_itens, p_busca, p_precos, p_calls,
                   p_resultado>>
    /\ UNCHANGED p_voltou
    /\ UNCHANGED notPipe

\* conversational variant: the fields come from the session, no extraction
PipeFromSession ==
    /\ p_pc = "begin"
    /\ p_variant = "conv"
    /\ p_pc' = "load"
    /\ UNCHANGED <<p_variant, p_unidades, p_itens, p_busca, p_precos, p_calls,
                   p_resultado, p_events>>
    /\ UNCHANGED p_voltou
    /\ UNCHANGED notPipe

\* structure loaded from the API base budget or generated by the LLM
PipeLoadBase ==
    /\ p_pc = "load"
    /\ \E itens \in ItemLists, fonte \in {"api", "llm"} :
         /\ p_itens' = itens
         /\ IF Len(itens) = 0
              THEN /\ p_events' = p_events \o
                        (IF fonte = "llm" THEN <<"load_base", "generate_structure", "error">>
                                          ELSE <<"load_base", "error">>)
                   /\ p_pc' = "done"
              ELSE /\ p_events' = p_events \o
                        (IF fonte = "llm"
                           THEN <<"load_base", "generate_structure", "load_base_done">>
                           ELSE <<"load_base", "load_base_done">>)
                   /\ p_pc' = "search"
    /\ UNCHANGED <<p_variant, p_unidades, p_busca, p_precos, p_calls, p_resultado>>
    /\ UNCHANGED p_voltou
    /\ UNCHANGED notPipe

\* gerar_estrutura_orcamento reports failure: error event, return
PipeStructureFail ==
    /\ p_pc = "load"
    /\ p_events' = p_events \o <<"load_base", "generate_structure", "error">>
    /\ p_pc' = "done"
    /\ UNCHANGED <<p_variant, p_unidades, p_itens, p_busca, p_precos, p_calls,
                   p_resultado>>
    /\ UNCHANGED p_voltou
    /\ UNCHANGED notPipe

\* buscar_etapas_por_orcamento raises (raise_for_status is not caught)
PipeLoadRaise ==
    /\ p_pc = "load"
    /\ p_events' = Append(p_events, "load_base")
    /\ p_pc' = "raised"
    /\ UNCHANGED <<p_variant, p_unidades, p_itens, p_busca, p_precos, p_calls,
                   p_resultado>>
    /\ UNCHANGED p_voltou
    /\ UNCHANGED notPipe

\* stage search: the `search` event, then asyncio.gather starts one
\* buscar_item per item
PipeSearchStart ==
    /\ p_pc = "search"
    /\ p_events' = Append(p_events, "search")
    /\ p_calls' = [p_calls EXCEPT !.search = @ + Len(p_itens)]
    /\ p_busca' = [i \in DOMAIN p_itens |-> BuscaPendente]
    /\ p_voltou' = <<>>
    /\ p_pc' = "searching"
    /\ UNCHANGED <<p_variant, p_unidades, p_itens, p_precos, p_resultado>>
    /\ UNCHANGED notPipe

\* one buscar_item call finishes, in any order; an exception propagates out
\* of gather and out of the run
PipeSearchReturn(i) ==
    /\ p_pc = "searching"
    /\ i \in DOMAIN p_itens
    /\ i \notin Range(p_voltou)
    /\ \E r \in SearchOutcomes :
         IF r.kind = "raise"
           THEN /\ p_pc' = "raised"
                /\ UNCHANGED <<p_busca, p_voltou>>
           ELSE /\ p_busca' = [p_busca EXCEPT ![i] = r]
                /\ p_voltou' = Append(p_voltou, i)
                /\ UNCHANGED p_pc
    /\ UNCHANGED <<p_variant, p_unidades, p_itens, p_precos, p_calls, p_resultado,
                   p_events>>
    /\ UNCHANGED notPipe

\* gather returns resultados_busca: the `search_done` event
PipeSearchDone ==
    /\ p_pc = "searching"
    /\ TodasVoltaram(DOMAIN p_itens, p_voltou)
    /\ p_events' = Append(p_events, "search_done")
    /\ p_pc' = "pricing"
    /\ UNCHANGED <<p_variant, p_unidades, p_itens, p_busca, p_precos, p_calls,
                   p_resultado, p_voltou>>
    /\ UNCHANGED notPipe

\* stage pricing: the `pricing` event, then asyncio.gather starts one
\* buscar_preco per code of codigos_para_buscar
PipePricingStart ==
    /\ p_pc = "pricing"
    /\ p_events' = Append(p_events, "pricing")
    /\ p_calls' = [p_calls EXCEPT !.pricing = @ + PricingCalls(p_busca)]
    /\ p_precos' = <<>>
    /\ p_voltou' = <<>>
    /\ p_pc' = "pricing_calls"
    /\ UNCHANGED <<p_variant, p_unidades, p_itens, p_busca, p_resultado>>
    /\ UNCHANGED notPipe

\* one buscar_preco call finishes, in any order
PipePricingReturn(c) ==
    /\ p_pc = "pricing_calls"
    /\ c \in CodigosParaBuscar(p_busca)
    /\ c \notin Range(p_voltou)
    /\ \E r \in PriceOutcomes :
         IF r.kind = "raise"
           THEN /\ p_pc' = "raised"
                /\ UNCHANGED <<p_precos, p_voltou>>
           ELSE /\ p_precos' = p_precos @@ (c :> r.preco)
                /\ p_voltou' = Append(p_voltou, c)
                /\ UNCHANGED p_pc
    /\ UNCHANGED <<p_variant, p_unidades, p_itens, p_busca, p_calls, p_resultado,
                   p_events>>
    /\ UNCHANGED notPipe

\* gather returns precos_resultado: precos_map, the `pricing_done` event
PipePricingDone ==
    /\ p_pc = "pricing_calls"
    /\ TodasVoltaram(CodigosParaBuscar(p_busca), p_voltou)
    /\ p_events' = Append(p_events, "pricing_done")
    /\ p_pc' = "synth"
    /\ UNCHANGED <<p_variant, p_unidades, p_itens, p_busca, p_precos, p_calls,
                   p_resultado, p_voltou>>
    /\ UNCHANGED notPipe

\* join, group by stage, totals
PipeSynthesize ==
    /\ p_pc = "synth"
    /\ LET etapas == MontarEtapas(Processados, 1, <<>>)
       IN p_resultado' = [p_resultado EXCEPT
                             !.sucesso = TRUE,
                             !.etapas = etapas,
                             !.valor_total = SomaEtapas(etapas, 1)]
    /\ p_events' = p_events \o <<"synthesize", "synthesize_done">>
    /\ p_pc' = "persist"
    /\ UNCHANGED <<p_variant, p_unidades, p_itens, p_busca, p_precos, p_calls>>
    /\ UNCHANGED p_voltou
    /\ UNCHANGED notPipe

\* no nome_obra: nothing is persisted
PipeNoPersist ==
    /\ p_pc = "persist"
    /\ p_pc' = "complete"
    /\ UNCHANGED <<p_variant, p_unidades, p_itens, p_busca, p_precos, p_calls,
                   p_resultado, p_events>>
    /\ UNCHANGED p_voltou
    /\ UNCHANGED notPipe

\* nome_obra given: _persistir_orcamento returns the created codes, returns
\* None (criar_orcamento failed), or raises
PipePersist ==
    /\ p_pc = "persist"
    /\ \E outcome \in {"created", "none", "raise"} :
         /\ p_resultado' = IF outcome = "created"
                             THEN [p_resultado EXCEPT !.codigo_orcamento_criado = "orc"]
                             ELSE p_resultado
         /\ p_events' = p_events \o
               (IF outcome = "raise" THEN <<"persist", "persist_error">>
                                     ELSE <<"persist", "persist_done">>)
    /\ p_pc' = "complete"
    /\ UNCHANGED <<p_variant, p_unidades, p_itens, p_busca, p_precos, p_calls>>
    /\ UNCHANGED p_voltou
    /\ UNCHANGED notPipe

PipeComplete ==
    /\ p_pc = "complete"
    /\ p_events' = Append(p_events, "complete")
    /\ p_pc' = "done"
    /\ UNCHANGED <<p_variant, p_unidades, p_itens, p_busca, p_precos, p_calls,
                   p_resultado>>
    /\ UNCHANGED p_voltou
    /\ UNCHANGED notPipe

PipeNext ==
    \/ PipeExtraction
    \/ PipeExtractionFail
    \/ PipeFromSession
    \/ PipeLoadBase
    \/ PipeStructureFail
    \/ PipeLoadRaise
    \/ PipeSearchStart
    \/ \E i \in 1 .. MaxItems : PipeSearchReturn(i)
    \/ PipeSearchDone
    \/ PipePricingStart
    \/ \E c \in Codes : PipePricingReturn(c)
    \/ PipePricingDone
    \/ PipeSynthesize
    \/ PipeNoPersist
    \/ PipePersist
    \/ PipeComplete

SpecPipe == PipeInit /\ [][PipeNext]_vars

----------------------------------------------------------------------------
(* Claims about the pipeline *)

RECURSIVE SumSeq(_)
SumSeq(q) == IF q = <<>> THEN 0 ELSE Head(q) + SumSeq(Tail(q))

\* the sequence of the elements of q that satisfy the stage name
RECURSIVE DaEtapa(_, _)
DaEtapa(q, nome) ==
    IF q = <<>> THEN <<>>
    ELSE IF Head(q).etapa_nome = nome
           THEN <<Head(q)>> \o DaEtapa(Tail(q), nome)
           ELSE DaEtapa(Tail(q), nome)

PrecosTotais(q) == [i \in DOMAIN q |-> q[i].preco_total]

Permutacoes(n) ==
    { f \in [1 .. n -> 1 .. n] : \A a, b \in 1 .. n : f[a] = f[b] => a = b }

\* the total recorded for a stage name in a list of stages
TotalDaEtapa(etapas, nome) ==
    SumSeq([k \in DOMAIN etapas |->
              IF etapas[k].nome = nome THEN etapas[k].valor_total ELSE 0])

PricingStarted == Count(p_events, "pricing") = 1

Synthesized == p_pc \in {"persist", "complete", "done"} /\ p_resultado.sucesso

\* the items of the result, over all stages
ItensDoResultado ==
    UNION { { p_resultado.etapas[k].itens[i] :
                i \in DOMAIN p_resultado.etapas[k].itens } :
            k \in DOMAIN p_resultado.etapas }

\* C6: in one run the number of pricing calls equals the number of distinct
\* matched codes over all items, and items that resolve to the same code get
\* the same unit price.
C6_PricingDedup ==
    /\ p_calls.pricing =
         IF PricingStarted
           THEN Cardinality({ c \in Codes :
                                \E i \in DOMAIN p_busca :
                                   p_busca[i].kind = "match" /\ p_busca[i].codigo = c })
           ELSE 0
    /\ Synthesized =>
         \A a, b \in ItensDoResultado :
            (a.codigo # NoVal /\ a.codigo = b.codigo)
               => a.preco_unitario = b.preco_unitario

\* two items resolved to the same code and priced: one call, a real price
C6_Witness ==
    /\ Synthesized
    /\ Len(p_itens) = 2
    /\ p_busca[1].kind = "match"
    /\ p_busca[2].kind = "match"
    /\ p_busca[1].codigo = p_busca[2].codigo
    /\ p_calls.pricing = 1
    /\ \A it \in ItensDoResultado : it.preco_unitario > 0

\* C7: each stage's valor_total is the sum of preco_total of the items grouped
\* under that stage name, the budget valor_total is the sum of the stage
\* totals, and neither depends on the order in which the items are processed.
C7_Aggregation ==
    Synthesized =>
      /\ \A k \in DOMAIN p_resultado.etapas :
            LET e == p_resultado.etapas[k] IN
            /\ e.itens = DaEtapa(Processados, e.nome)
            /\ e.valor_total = SumSeq(PrecosTotais(e.itens))
      /\ \A i \in DOMAIN Processados :
            \E k \in DOMAIN p_resultado.etapas :
               p_resultado.etapas[k].nome = Processados[i].etapa_nome
      /\ \A k, m \in DOMAIN p_resultado.etapas :
            p_resultado.etapas[k].nome = p_resultado.etapas[m].nome => k = m
      /\ p_resultado.valor_total =
            SumSeq([k \in DOMAIN p_resultado.etapas |->
                      p_resultado.etapas[k].valor_total])
      /\ \A f \in Permutacoes(Len(p_itens)) :
            LET outra == MontarEtapas([i \in DOMAIN p_itens |-> Processados[f[i]]],
                                      1, <<>>)
            IN /\ SomaEtapas(outra, 1) = p_resultado.valor_total
               /\ \A nome \in Stages :
                     TotalDaEtapa(outra, nome) = TotalDaEtapa(p_resultado.etapas, nome)

\* two priced items under one stage, with different totals, and a budget
\* total that is their sum
C7_Witness ==
    /\ Synthesized
    /\ Len(p_resultado.etapas) = 1
    /\ Len(p_resultado.etapas[1].itens) = 2
    /\ p_resultado.etapas[1].itens[1].preco_total > 0
    /\ p_resultado.etapas[1].itens[2].preco_total >
          p_resultado.etapas[1].itens[1].preco_total
    /\ p_resultado.valor_total =
          p_resultado.etapas[1].itens[1].preco_total
            + p_resultado.etapas[1].itens[2].preco_total

\* the run was aborted by an exception of a search call or of a pricing call
AbortedByItemFailure ==
    p_pc = "raised" /\ Last(p_events) \in {"search", "pricing"}

\* C8: a search call or pricing call that raises does not abort the run; the
\* run goes on to its `complete` event.
C8_FailureIsolation == ~AbortedByItemFailure

\* the stage an event belongs to, in the order of the pipeline
EtapaDoEvento(e) ==
    IF e \in {"extraction", "extraction_done"} THEN 1
    ELSE IF e \in {"load_base", "generate_structure", "load_base_done"} THEN 2
    ELSE IF e \in {"search", "search_done"} THEN 3
    ELSE IF e \in {"pricing", "pricing_done"} THEN 4
    ELSE IF e \in {"synthesize", "synthesize_done"} THEN 5
    ELSE IF e \in {"persist", "persist_done", "persist_error"} THEN 6
    ELSE 7

\* no event of an earlier stage follows an event of a later stage; `error`
\* and `complete` end the run
EventosEmOrdem ==
    /\ \A i, j \in DOMAIN p_events :
          i < j => EtapaDoEvento(p_events[i]) <= EtapaDoEvento(p_events[j])
    /\ \A i \in DOMAIN p_events :
          p_events[i] \in {"error", "complete"} => i = Len(p_events)
    /\ \A e \in Range(p_events) : Count(p_events, e) = 1

\* once search_done is out every item has its search result, and once
\* pricing_done is out every code to price has its entry in precos_map
ResultadosCompletos ==
    /\ Count(p_events, "search_done") = 1 =>
          /\ DOMAIN p_busca = DOMAIN p_itens
          /\ \A i \in DOMAIN p_busca : p_busca[i] # BuscaPendente
    /\ Count(p_events, "pricing_done") = 1 =>
          DOMAIN p_precos = CodigosParaBuscar(p_busca)

Emite(e) == Count(p_events', e) > Count(p_events, e)

\* the step that emits search_done or pricing_done finds every call of the
\* batch returned
C17_Passo ==
    /\ Emite("search_done") => Range(p_voltou) = DOMAIN p_itens
    /\ Emite("pricing_done") => Range(p_voltou) = CodigosParaBuscar(p_busca)

\* C17: the events of one run come in the stage order extraction, load_base,
\* search, pricing, synthesize, persist, complete; search_done is emitted
\* only when every search call of the batch has returned and pricing_done
\* only when every pricing call has returned, whatever order they finish in.
C17_EventOrder ==
    [](EventosEmOrdem /\ ResultadosCompletos) /\ [][C17_Passo]_vars

\* a complete run of the base variant over two items with two codes, whose
\* pricing calls finished in the order c2, c1, and that persisted its result
C17_Witness ==
    /\ p_pc = "done"
    /\ p_variant = "base"
    /\ Last(p_events) = "complete"
    /\ Count(p_events, "persist_done") = 1
    /\ Len(p_itens) = 2
    /\ p_voltou = <<"c2", "c1">>

----------------------------------------------------------------------------
(* The conversational flow: ConversationalOrchestrator.process_stream over  *)
(* the session store of ConversationManager.                                *)
(*                                                                          *)
(* process_stream is an async generator: it is suspended at every `yield`   *)
(* and the event loop may run another request in between, so each action    *)
(* below is the code from one suspension point up to the next yield. The    *)
(* rule-based extraction never awaits a pending future, so it runs without  *)
(* suspension. The model follows one session id; sessions under other ids   *)
(* share no state with it.                                                  *)

\* requests started in one behaviour
MaxRequests == 4

CAMPOS_OBRIGATORIOS == <<"uf", "tipo_construtivo", "padrao_construtivo">>

CAMPOS_COM_PADRAO == {"quantidade", "mes_referencia", "ano_referencia"}

\* the key under which the extractor hands the unsupported-type notice over
TipoNaoSuportado == "_tipo_nao_suportado"

SeqToSet(q) == { q[i] : i \in DOMAIN q }

\* a message, by what extrair_por_regras finds in it
Texto(uf, tipo, padrao, quantidade, mes, ano) ==
    [vazio |-> FALSE, uf |-> uf, tipo |-> tipo, padrao |-> padrao,
     quantidade |-> quantidade, mes |-> mes, ano |-> ano]

\* the messages requests carry
Texts ==
    { Texto(FALSE, "none", FALSE, "none", FALSE, FALSE),        \* "ola"
      Texto(FALSE, "unsupported", FALSE, "none", FALSE, FALSE), \* "um galpao"
      Texto(TRUE, "none", FALSE, "none", FALSE, FALSE),         \* "em SP"
      Texto(TRUE, "ok", TRUE, "none", FALSE, FALSE),            \* "casa basica em SP"
      Texto(TRUE, "ok", TRUE, "ok", FALSE, FALSE),              \* "2 casas ..."
      Texto(TRUE, "ok", TRUE, "invalid", TRUE, FALSE) }         \* "0 casas ... em maio"

\* the answers requests carry: a field and whether its value validates
Respostas ==
    [campo : SeqToSet(CAMPOS_OBRIGATORIOS) \cup {"quantidade"}, valido : BOOLEAN]

\* the inputs of one request: at most one of message, answer and action
ConvInputs ==
    [novo : BOOLEAN, texto : Texts \cup {SemTexto}, resposta : {SemResposta},
     confirmacao : {NoVal}]
    \cup [novo : BOOLEAN, texto : {SemTexto}, resposta : Respostas,
          confirmacao : {NoVal}]
    \cup [novo : BOOLEAN, texto : {SemTexto}, resposta : {SemResposta},
          confirmacao : {"confirmar", "corrigir"}]

TIPOS_RESIDENCIAIS_DISPONIVEIS == <<"Casa", "Apartamento", "Sobrado", "Kitnet">>

\* an event without payload beyond the session id; of the payload of
\* `complete` the events keep sucesso and the sign of valor_total, of the
\* payload of `confirm_defaults` the names of the fields listed
NoDados ==
    [tipos_disponiveis |-> <<>>, sucesso |-> FALSE, total_negativo |-> FALSE,
     defaults |-> {}]

Ev(etapa) == [etapa |-> etapa, campo |-> NoVal, dados |-> NoDados]

EvCampo(etapa, campo) == [etapa |-> etapa, campo |-> campo, dados |-> NoDados]

EvDados(etapa, dados) == [etapa |-> etapa, campo |-> NoVal, dados |-> dados]

\* the payloads of `complete`: _resultado_to_dict of every result the
\* pipeline can synthesize from a structure of up to MaxItems items
ResultadosConv ==
    { [NoDados EXCEPT
         !.sucesso = TRUE,
         !.total_negativo =
            SomaEtapas(MontarEtapas(
               [i \in DOMAIN x.itens |->
                  ItemProcessado(x.itens[i], x.busca[i], x.precos, x.unidades)],
               1, <<>>), 1) < 0] :
      x \in { y \in [itens : ItemLists \ {<<>>},
                     busca : UNION { [1 .. n -> SearchOutcomes] : n \in 1 .. MaxItems },
                     precos : [Codes -> { o.preco : o \in PriceOutcomes }],
                     unidades : {1, MaxUnits}] :
                /\ Len(y.busca) = Len(y.itens)
                /\ \A i \in DOMAIN y.busca : y.busca[i].kind # "raise" } }

\* CampoInfo as atualizar_campo builds it
CampoInfo(fonte) == [fonte |-> fonte, confirmado |-> (fonte = "confirmado")]

\* list.remove: drops the first occurrence
RECURSIVE Remover(_, _)
Remover(q, x) ==
    IF q = <<>> THEN <<>>
    ELSE IF Head(q) = x THEN Tail(q)
    ELSE <<Head(q)>> \o Remover(Tail(q), x)

\* a session created without marking the required fields as pending
criar_sessao_sem_pendentes ==
    [existe |-> TRUE,
     vencida |-> FALSE,
     fase |-> "coleta",
     campos |-> [n \in CAMPOS_COM_PADRAO |-> [fonte |-> "padrao", confirmado |-> FALSE]],
     campos_pendentes |-> <<>>]

criar_sessao ==
    [existe |-> TRUE,
     vencida |-> FALSE,
     fase |-> "coleta",
     campos |-> [n \in CAMPOS_COM_PADRAO |-> [fonte |-> "padrao", confirmado |-> FALSE]],
     campos_pendentes |-> CAMPOS_OBRIGATORIOS]

\* the lookup without the expiry test
obter_sessao_sem_ttl(sessao) ==
    IF ~sessao.existe THEN NoSessao ELSE sessao

\* obter_sessao: the store after the lookup; the session is found when the
\* result has existe. `vencida` says that the time since atualizado_em
\* exceeds SESSION_TTL: such a session is deleted by the lookup.
obter_sessao(sessao) ==
    IF ~sessao.existe THEN NoSessao
    ELSE IF sessao.vencida THEN NoSessao
    ELSE sessao

atualizar_campo(sessao, campo, fonte) ==
    IF ~sessao.existe THEN sessao
    ELSE [sessao EXCEPT
            !.campos = [n \in DOMAIN sessao.campos \cup {campo} |->
                          IF n = campo THEN CampoInfo(fonte) ELSE sessao.campos[n]],
            !.campos_pendentes = Remover(@, campo)]

\* a confirmation that confirms one default field per round
confirmar_um_default(sessao) ==
    IF ~sessao.existe THEN sessao
    ELSE LET abertos == { n \in DOMAIN sessao.campos :
                            sessao.campos[n].fonte = "padrao" /\ ~sessao.campos[n].confirmado }
         IN IF abertos = {} THEN sessao
            ELSE [sessao EXCEPT !.campos[CHOOSE n \in abertos : TRUE] =
                                   [fonte |-> "confirmado", confirmado |-> TRUE]]

confirmar_todos_defaults(sessao) ==
    IF ~sessao.existe THEN sessao
    ELSE [sessao EXCEPT
            !.campos = [n \in DOMAIN sessao.campos |->
                          IF sessao.campos[n].fonte = "padrao" /\ ~sessao.campos[n].confirmado
                            THEN [fonte |-> "confirmado", confirmado |-> TRUE]
                            ELSE sessao.campos[n]]]

obter_campos_com_padrao_nao_confirmados(sessao) ==
    { n \in DOMAIN sessao.campos :
        sessao.campos[n].fonte = "padrao" /\ ~sessao.campos[n].confirmado }

atualizar_fase(sessao, fase) ==
    IF ~sessao.existe THEN sessao ELSE [sessao EXCEPT !.fase = fase]

\* construir_dados_extraidos returns None when a required field is missing
DadosIncompletos(sessao) ==
    \E i \in DOMAIN CAMPOS_OBRIGATORIOS : CAMPOS_OBRIGATORIOS[i] \notin DOMAIN sessao.campos

\* validar_data_referencia: the current date is used when month or year is
\* missing or invalid
usou_corrente(t) == ~t.mes \/ ~t.ano

\* the extraction without the unsupported-type branch
extrair_sem_nao_suportado(t) ==
    [campos_extraidos |->
        (IF t.uf THEN {"uf"} ELSE {})
        \cup (IF t.padrao THEN {"padrao_construtivo"} ELSE {})
        \cup (IF t.quantidade = "ok" THEN {"quantidade"} ELSE {})
        \cup (IF t.tipo # "none" THEN {"tipo_construtivo"} ELSE {}),
     campos_com_padrao |->
        (IF t.quantidade = "ok" THEN {} ELSE {"quantidade"})
        \cup {"mes_referencia", "ano_referencia"},
     campos_faltantes |->
        (IF t.uf THEN <<>> ELSE <<"uf">>)
        \o (IF t.tipo # "none" THEN <<>> ELSE <<"tipo_construtivo">>)
        \o (IF t.padrao THEN <<>> ELSE <<"padrao_construtivo">>)]

\* extrair_informacoes_inteligente with usar_llm=False
extrair_informacoes_inteligente(t) ==
    LET naoSuportado == t.tipo = "unsupported"
        faltantes ==
            (IF naoSuportado THEN <<"tipo_construtivo">> ELSE <<>>)
            \o (IF t.uf THEN <<>> ELSE <<"uf">>)
            \o (IF naoSuportado \/ t.tipo = "ok" THEN <<>> ELSE <<"tipo_construtivo">>)
            \o (IF t.padrao THEN <<>> ELSE <<"padrao_construtivo">>)
        extraidos ==
            (IF t.uf THEN {"uf"} ELSE {})
            \cup (IF t.tipo = "ok" THEN {"tipo_construtivo"} ELSE {})
            \cup (IF t.padrao THEN {"padrao_construtivo"} ELSE {})
            \cup (IF t.quantidade = "ok" THEN {"quantidade"} ELSE {})
            \cup (IF t.mes /\ ~usou_corrente(t) THEN {"mes_referencia"} ELSE {})
            \cup (IF t.ano /\ ~usou_corrente(t) THEN {"ano_referencia"} ELSE {})
        comPadrao ==
            (IF naoSuportado THEN {TipoNaoSuportado} ELSE {})
            \cup (IF t.quantidade = "ok" THEN {} ELSE {"quantidade"})
            \cup (IF t.mes /\ ~usou_corrente(t) THEN {} ELSE {"mes_referencia"})
            \cup (IF t.ano /\ ~usou_corrente(t) THEN {} ELSE {"ano_referencia"})
    IN [campos_extraidos |-> extraidos,
        campos_com_padrao |-> comPadrao,
        campos_faltantes |-> faltantes]

\* step 4 after the extraction: extracted fields are stored with fonte
\* usuario, defaults and the notice under names the session does not hold yet
\* with fonte padrao, and the pending list is replaced by campos_faltantes
AplicarExtracao(sessao, res) ==
    IF ~sessao.existe THEN sessao
    ELSE
    LET novos == { n \in res.campos_com_padrao : n \notin DOMAIN sessao.campos }
    IN [sessao EXCEPT
          !.campos = [n \in DOMAIN sessao.campos \cup res.campos_extraidos \cup novos |->
                        IF n \in res.campos_extraidos THEN CampoInfo("usuario")
                        ELSE IF n \in novos THEN CampoInfo("padrao")
                        ELSE sessao.campos[n]],
          !.campos_pendentes = res.campos_faltantes]

\* sessao.campos_pendentes = resultado_extracao.campos_faltantes.copy(): the
\* orchestrator assigns the attribute of the stored object itself, outside
\* the accessors and outside the lock
EscritasDiretas(sessao) == IF sessao.existe THEN {"campos_pendentes"} ELSE {}

Passo(sessao, ev, pc) == [sessao |-> sessao, ev |-> ev, pc |-> pc]

\* steps 5 to 8 without step 6: the summary is shown whatever the defaults
FromStep5SemDefaults(sessao) ==
    IF sessao.campos_pendentes # <<>>
      THEN Passo(sessao, <<EvCampo("question", Head(sessao.campos_pendentes))>>, "done")
    ELSE IF sessao.fase = "coleta"
      THEN Passo(atualizar_fase(sessao, "confirmacao"), <<Ev("confirm_summary")>>, "done")
    ELSE IF sessao.fase = "processamento"
      THEN IF DadosIncompletos(sessao)
             THEN Passo(sessao, <<Ev("error")>>, "done")
             ELSE Passo(sessao, <<Ev("load_base")>>, "pipeline")
    ELSE Passo(sessao, <<>>, "done")

\* steps 5 to 8, up to the next yield
FromStep5(sessao) ==
    IF sessao.campos_pendentes # <<>>
      THEN Passo(sessao, <<EvCampo("question", Head(sessao.campos_pendentes))>>, "done")
    ELSE IF obter_campos_com_padrao_nao_confirmados(sessao) # {} /\ sessao.fase = "coleta"
      THEN Passo(sessao,
                 <<EvDados("confirm_defaults",
                           [NoDados EXCEPT !.defaults =
                               obter_campos_com_padrao_nao_confirmados(sessao)])>>,
                 "done")
    ELSE IF sessao.fase = "coleta"
      THEN Passo(atualizar_fase(sessao, "confirmacao"), <<Ev("confirm_summary")>>, "done")
    ELSE IF sessao.fase = "processamento"
      THEN IF DadosIncompletos(sessao)
             THEN Passo(sessao, <<Ev("error")>>, "done")
             ELSE Passo(sessao, <<Ev("load_base")>>, "pipeline")
    ELSE Passo(sessao, <<>>, "done")

\* step 4, up to the next yield
FromStep4(sessao, req) ==
    IF sessao.fase = "coleta" /\ ~req.texto.vazio /\ req.resposta = SemResposta
      THEN Passo(sessao, <<Ev("extraction_start")>>, "extract")
      ELSE FromStep5(sessao)

\* step 3 with `confirmar` in phase coleta starting the processing at once
FromStep3Direto(sessao, req) ==
    IF req.confirmacao = "confirmar" /\ sessao.fase \in {"coleta", "confirmacao"}
      THEN Passo(atualizar_fase(confirmar_todos_defaults(sessao), "processamento"),
                 <<Ev("user_confirmed")>>, "s4")
    ELSE IF req.confirmacao = "corrigir"
      THEN Passo(atualizar_fase(sessao, "coleta"), <<Ev("correction_needed")>>, "done")
    ELSE FromStep4(sessao, req)

\* step 3, up to the next yield
FromStep3(sessao, req) ==
    IF req.confirmacao = "confirmar" /\ sessao.fase = "coleta"
      THEN Passo(confirmar_todos_defaults(sessao), <<Ev("user_confirmed")>>, "s4")
    ELSE IF req.confirmacao = "confirmar" /\ sessao.fase = "confirmacao"
      THEN Passo(atualizar_fase(sessao, "processamento"), <<Ev("user_confirmed")>>, "s4")
    ELSE IF req.confirmacao = "corrigir"
      THEN Passo(atualizar_fase(sessao, "coleta"), <<Ev("correction_needed")>>, "done")
    ELSE FromStep4(sessao, req)

\* step 2, up to the next yield
FromStep2(sessao, req) ==
    IF req.resposta # SemResposta
      THEN IF req.resposta.valido
             THEN Passo(atualizar_campo(sessao, req.resposta.campo, "usuario"),
                        <<EvCampo("field_updated", req.resposta.campo)>>, "s3")
             ELSE Passo(sessao, <<Ev("error")>>, "ask")
      ELSE FromStep3(sessao, req)

InFlight(r) == c_req[r].pc \notin {"free", "done"}

\* what the session has been through once the events ev are yielded: the
\* summary was shown (confirm_summary), then a `confirmar` was acknowledged
\* (user_confirmed)
ProximoMarco(marco, ev) ==
    IF \E i \in DOMAIN ev : ev[i].etapa = "confirm_summary" THEN "resumo"
    ELSE IF marco # "nenhum" /\ \E i \in DOMAIN ev : ev[i].etapa = "user_confirmed"
      THEN "confirmado"
    ELSE marco

\* whether a field holds a value the summary did not show, once the events
\* ev are yielded: step 2 stores the value of an answer (field_updated) and
\* step 7 shows the stored values (confirm_summary)
ProximoAlterado(alterado, ev) ==
    IF \E i \in DOMAIN ev : ev[i].etapa = "confirm_summary" THEN FALSE
    ELSE IF \E i \in DOMAIN ev : ev[i].etapa = "field_updated" THEN TRUE
    ELSE alterado

\* the request at slot r goes on to the next yield as `passo` says
Apply(r, passo) ==
    /\ c_sessao' = passo.sessao
    /\ c_ev' = [c_ev EXCEPT ![r] = @ \o passo.ev]
    /\ c_req' = [c_req EXCEPT ![r].pc = passo.pc]
    /\ c_marcos' = ProximoMarco(c_marcos, passo.ev)
    /\ c_alterado' = ProximoAlterado(c_alterado, passo.ev)
    /\ UNCHANGED <<c_started, c_roteiro>>

\* the guided script: a first message giving quantity, type, standard and
\* state but no month or year, then `confirmar` twice
Roteiro ==
    <<[novo |-> TRUE, texto |-> Texto(TRUE, "ok", TRUE, "ok", FALSE, FALSE),
       resposta |-> SemResposta, confirmacao |-> NoVal],
      [novo |-> FALSE, texto |-> SemTexto, resposta |-> SemResposta,
       confirmacao |-> "confirmar"],
      [novo |-> FALSE, texto |-> SemTexto, resposta |-> SemResposta,
       confirmacao |-> "confirmar"]>>

\* the requests so far did not follow the guided script one after the other
Fora == 0 - 1

ConvInit ==
    /\ ConvIdle
    /\ AgentIdle
    /\ RetryIdle
    /\ PipeIdle
    /\ AdapterIdle
    /\ GateIdle
    /\ SlotIdle
    /\ GenIdle
    /\ StoreIdle

\* a request arrives: step 1 up to its yield. Without session_id a session
\* is created (under a new id, which the model follows from then on); with
\* one, the session is looked up.
ConvRequest(r) ==
    /\ ~InFlight(r)
    /\ \A q \in Slots : q < r => InFlight(q)
    /\ c_started < MaxRequests
    /\ \E in \in ConvInputs :
         /\ in.novo => (~c_sessao.existe \/ c_sessao.vencida)
         /\ LET achada == obter_sessao(c_sessao)
                passo ==
                  IF in.novo THEN Passo(criar_sessao, <<Ev("session_created")>>, "s2")
                  ELSE IF ~achada.existe
                         THEN Passo(achada, <<Ev("session_expired")>>, "done")
                         ELSE Passo(achada, <<Ev("session_resumed")>>, "s2")
            IN /\ c_sessao' = passo.sessao
               /\ c_ev' = [c_ev EXCEPT ![r] = passo.ev]
               /\ c_req' = [c_req EXCEPT ![r] =
                              [pc |-> passo.pc, novo |-> in.novo, texto |-> in.texto,
                               resposta |-> in.resposta, confirmacao |-> in.confirmacao]]
         /\ c_roteiro' =
               IF /\ c_roteiro = c_started
                  /\ c_started < Len(Roteiro)
                  /\ \A q \in Slots : ~InFlight(q)
                  /\ in = Roteiro[c_started + 1]
                 THEN c_roteiro + 1
                 ELSE Fora
    /\ c_marcos' = IF c_sessao'.existe /\ c_sessao' = c_sessao THEN c_marcos ELSE "nenhum"
    /\ c_alterado' = (c_sessao'.existe /\ c_sessao' = c_sessao /\ c_alterado)
    /\ c_started' = c_started + 1
    /\ UNCHANGED c_diretas
    /\ UNCHANGED notConv

ConvStep2(r) ==
    /\ c_req[r].pc = "s2"
    /\ Apply(r, FromStep2(c_sessao, c_req[r]))
    /\ UNCHANGED c_diretas
    /\ UNCHANGED notConv

\* after the error of an invalid answer: the question is asked again
ConvAskAgain(r) ==
    /\ c_req[r].pc = "ask"
    /\ Apply(r, Passo(c_sessao, <<EvCampo("question", c_req[r].resposta.campo)>>, "done"))
    /\ UNCHANGED c_diretas
    /\ UNCHANGED notConv

ConvStep3(r) ==
    /\ c_req[r].pc = "s3"
    /\ Apply(r, FromStep3(c_sessao, c_req[r]))
    /\ UNCHANGED c_diretas
    /\ UNCHANGED notConv

ConvStep4(r) ==
    /\ c_req[r].pc = "s4"
    /\ Apply(r, FromStep4(c_sessao, c_req[r]))
    /\ UNCHANGED c_diretas
    /\ UNCHANGED notConv

\* after extraction_start: extraction, session update, next yield
ConvExtract(r) ==
    /\ c_req[r].pc = "extract"
    /\ LET res == extrair_informacoes_inteligente(c_req[r].texto)
           sessao == AplicarExtracao(c_sessao, res)
       IN IF TipoNaoSuportado \in res.campos_com_padrao
            THEN Apply(r, Passo(sessao,
                                <<EvDados("unsupported_type",
                                          [NoDados EXCEPT !.tipos_disponiveis =
                                              TIPOS_RESIDENCIAIS_DISPONIVEIS])>>,
                                "partial"))
            ELSE Apply(r, Passo(sessao, <<Ev("extraction_partial")>>, "s5"))
    /\ c_diretas' = c_diretas \cup EscritasDiretas(c_sessao)
    /\ UNCHANGED notConv

ConvPartial(r) ==
    /\ c_req[r].pc = "partial"
    /\ Apply(r, Passo(c_sessao, <<Ev("extraction_partial")>>, "s5"))
    /\ UNCHANGED c_diretas
    /\ UNCHANGED notConv

ConvStep5(r) ==
    /\ c_req[r].pc = "s5"
    /\ Apply(r, FromStep5(c_sessao))
    /\ UNCHANGED c_diretas
    /\ UNCHANGED notConv

\* _processar_orcamento runs to its last event: `complete`, an `error` event
\* followed by return, or an exception, which the route reports as an error
ConvPipeline(r) ==
    /\ c_req[r].pc = "pipeline"
    /\ \/ \E dados \in ResultadosConv :
            Apply(r, Passo(c_sessao, <<EvDados("complete", dados)>>, "fim"))
       \/ \E fim \in {"error", "raise"} :
            Apply(r, Passo(c_sessao, <<Ev("error")>>,
                           IF fim = "raise" THEN "done" ELSE "fim"))
    /\ UNCHANGED c_diretas
    /\ UNCHANGED notConv

\* the pipeline generator is exhausted: the phase becomes completo
ConvPipelineEnd(r) ==
    /\ c_req[r].pc = "fim"
    /\ Apply(r, Passo(atualizar_fase(c_sessao, "completo"), <<>>, "done"))
    /\ UNCHANGED c_diretas
    /\ UNCHANGED notConv

\* SESSION_TTL elapses since the last write, with no request in flight
ConvExpire ==
    /\ c_sessao.existe
    /\ ~c_sessao.vencida
    /\ \A r \in Slots : ~InFlight(r)
    /\ c_sessao' = [c_sessao EXCEPT !.vencida = TRUE]
    /\ c_roteiro' = Fora
    /\ UNCHANGED <<c_req, c_ev, c_started, c_marcos, c_alterado>>
    /\ UNCHANGED c_diretas
    /\ UNCHANGED notConv

ConvNext ==
    \/ \E r \in Slots : ConvRequest(r)
    \/ \E r \in Slots : ConvStep2(r)
    \/ \E r \in Slots : ConvAskAgain(r)
    \/ \E r \in Slots : ConvStep3(r)
    \/ \E r \in Slots : ConvStep4(r)
    \/ \E r \in Slots : ConvExtract(r)
    \/ \E r \in Slots : ConvPartial(r)
    \/ \E r \in Slots : ConvStep5(r)
    \/ \E r \in Slots : ConvPipeline(r)
    \/ \E r \in Slots : ConvPipelineEnd(r)
    \/ ConvExpire

SpecConv == ConvInit /\ [][ConvNext]_vars

----------------------------------------------------------------------------
(* Claims about the conversational flow *)

DefaultsPendentes ==
    c_sessao.existe /\ obter_campos_com_padrao_nao_confirmados(c_sessao) # {}

\* C3: the session phase is never `processamento` while some field has
\* fonte=padrao and confirmado=false, also when requests for the same session
\* overlap.
C3_NoSilentDefaults ==
    ~(c_sessao.existe /\ c_sessao.fase = "processamento" /\ DefaultsPendentes)

\* the rule-based pass extracts no field from the text
SemCampoExtraido(t) ==
    ~t.vazio /\ extrair_informacoes_inteligente(t).campos_extraidos = {}

\* the pending field that comes first in the fixed order of the required fields
RECURSIVE PrimeiroPendente(_, _)
PrimeiroPendente(pendentes, i) ==
    IF i > Len(CAMPOS_OBRIGATORIOS) THEN NoVal
    ELSE IF CAMPOS_OBRIGATORIOS[i] \in SeqToSet(pendentes) THEN CAMPOS_OBRIGATORIOS[i]
    ELSE PrimeiroPendente(pendentes, i + 1)

Perguntas(r) == SelectSeq(c_ev[r], LAMBDA e : e.etapa = "question")

\* the first request of a behaviour has just ended its run: it created the
\* session from a text without extractable field
FirstRunNoField ==
    /\ c_started = 1
    /\ c_sessao.existe
    /\ c_req[1].pc = "done"
    /\ c_req[1].novo
    /\ SemCampoExtraido(c_req[1].texto)

\* C10: a new session started with text from which no field is extracted ends
\* its run with all three required fields pending, in phase `coleta`, and with
\* exactly one `question` event, for the highest-priority pending field.
C10_FirstMessageNoField ==
    FirstRunNoField =>
      /\ SeqToSet(c_sessao.campos_pendentes) = SeqToSet(CAMPOS_OBRIGATORIOS)
      /\ c_sessao.fase = "coleta"
      /\ Len(Perguntas(1)) = 1
      /\ Perguntas(1)[1].campo = PrimeiroPendente(c_sessao.campos_pendentes, 1)

Etapas(r) == [i \in DOMAIN c_ev[r] |-> c_ev[r][i].etapa]

\* the events only _processar_orcamento emits
EventosPipeline == {"load_base", "complete"}

SemEventoPipeline(r) == \A i \in DOMAIN c_ev[r] : c_ev[r][i].etapa \notin EventosPipeline

\* the request at slot 1 is the k-th of the guided script and has ended
RoteiroFim(k) == c_roteiro = k /\ c_req[1].pc = "done"

ExtraiuNaoSuportado(r) ==
    /\ c_req[r].texto.tipo = "unsupported"
    /\ c_req[r].pc \in {"partial", "s5", "done"}
    /\ Count(Etapas(r), "extraction_start") = 1

\* the extraction step of the request at slot r
PassoExtracao(r) == c_req[r].pc = "extract" /\ c_req'[r].pc # "extract"

C12_Eventos ==
    \A r \in Slots :
       ExtraiuNaoSuportado(r) =>
         /\ Count(Etapas(r), "unsupported_type") = 1
         /\ \A i \in DOMAIN c_ev[r] :
               c_ev[r][i].etapa = "unsupported_type" =>
                  c_ev[r][i].dados.tipos_disponiveis = TIPOS_RESIDENCIAIS_DISPONIVEIS

\* no other request has ever run beside the one at slot 1
SemSobreposicao == c_req[2].pc = "free"

C12_FimDaRodada ==
    (ExtraiuNaoSuportado(1) /\ SemSobreposicao /\ c_sessao.existe) =>
       "tipo_construtivo" \in SeqToSet(c_sessao.campos_pendentes)

C12_Passo ==
    \A r \in Slots :
       (PassoExtracao(r) /\ c_req[r].texto.tipo = "unsupported") =>
          /\ Last(c_ev'[r]).etapa = "unsupported_type"
          /\ "tipo_construtivo" \in SeqToSet(c_sessao'.campos_pendentes)
          /\ ("tipo_construtivo" \in DOMAIN c_sessao'.campos)
                = ("tipo_construtivo" \in DOMAIN c_sessao.campos)
          /\ "tipo_construtivo" \in DOMAIN c_sessao.campos =>
                c_sessao'.campos["tipo_construtivo"] = c_sessao.campos["tipo_construtivo"]

ChegaSemSessao(r) ==
    /\ ~InFlight(r)
    /\ c_started' = c_started + 1
    /\ c_req'[r] # c_req[r] \/ c_ev'[r] # c_ev[r]
    /\ ~c_req'[r].novo
    /\ ~c_sessao.existe \/ c_sessao.vencida

C13_Passo ==
    \A r \in Slots :
       ChegaSemSessao(r) =>
          /\ c_ev'[r] = <<Ev("session_expired")>>
          /\ c_req'[r].pc = "done"
          /\ c_sessao' = NoSessao

C13_Rodada ==
    \A r \in Slots :
       (c_ev[r] # <<>> /\ c_ev[r][1].etapa = "session_expired") =>
          /\ c_ev[r] = <<Ev("session_expired")>>
          /\ c_req[r].pc = "done"

\* C13: a request whose session id is not in the store, or whose session has
\* been idle for longer than SESSION_TTL, emits exactly one event,
\* session_expired, and nothing else happens: no error event, no session
\* created, no field changed, no extraction or pipeline; the expired session is
\* removed from the store by the lookup.
C13_SessionExpiry ==
    []C13_Rodada /\ [][C13_Passo]_vars

\* the run of a message sent to a session that had been idle beyond the TTL
C13_Witness ==
    /\ c_req[1].pc = "done"
    /\ c_ev[1] = <<Ev("session_expired")>>
    /\ ~c_req[1].texto.vazio
    /\ c_started > 1
    /\ c_sessao = NoSessao

\* C18: every write to a stored session is made by a ConversationManager
\* accessor holding the store lock: no attribute of a session is ever
\* assigned by another component.
C18_SessionOwnership == c_diretas = {}

TransicoesPermitidas ==
    {<<"coleta", "confirmacao">>, <<"confirmacao", "processamento">>,
     <<"processamento", "completo">>, <<"confirmacao", "coleta">>}
    \cup {<<f, "erro">> : f \in {"coleta", "confirmacao", "processamento", "completo"}}

\* a step that changes the phase of a live session
MudaFase ==
    /\ c_sessao.existe
    /\ ~c_sessao.vencida
    /\ c_sessao'.existe
    /\ c_sessao'.fase # c_sessao.fase

C15_Passo == MudaFase => <<c_sessao.fase, c_sessao'.fase>> \in TransicoesPermitidas

\* C15: every change of a session's phase is coleta -> confirmacao,
\* confirmacao -> processamento, processamento -> completo, confirmacao ->
\* coleta, or a change into erro; no step leaves completo and none goes from
\* processamento back to coleta.
C15_AllowedTransitions == [][C15_Passo]_vars

----------------------------------------------------------------------------
(* The provider adapters: complete_with_tools of AnthropicProvider,         *)
(* OpenAIProvider and OllamaProvider: convert the history, post it, parse   *)
(* the reply.                                                               *)

\* most tool calls in one assistant message or one vendor reply
MaxToolCalls == 2
\* most turns in a history
MaxTurns == 3

Adapters == {"anthropic", "openai", "ollama"}

\* a turn of a history at position k: a user message, or an assistant
\* message with n tool calls directly followed by its n tool messages
UserTurn == <<UserMsg("pergunta")>>

AssistantTurn(k, text, n, err) ==
    <<AssistantMsg(text, [j \in 1 .. n |-> [id |-> <<k, j>>, name |-> "buscar_sinapi"]])>>
    \o [j \in 1 .. n |-> ToolMsg(ToolResult(<<k, j>>, "content", err /\ j = 1))]

Turns(k) ==
    {UserTurn}
    \cup { AssistantTurn(k, text, n, err) :
             text \in {"", "txt"}, n \in 0 .. MaxToolCalls, err \in BOOLEAN }

RECURSIVE HistoriesOf(_)
HistoriesOf(k) ==
    IF k = 0 THEN {<<>>}
    ELSE { h \o t : h \in HistoriesOf(k - 1), t \in Turns(k) }

Histories == UNION { HistoriesOf(k) : k \in 1 .. MaxTurns }

\* a tool message that answers no call of the history
OrphanTurn(k) == <<ToolMsg(ToolResult(<<k, 0>>, "content", FALSE))>>

\* histories as any caller may pass them: the turns above and tool messages
\* standing alone, at the start, after a user message or after the results
\* of an assistant message
RECURSIVE AnyHistoriesOf(_)
AnyHistoriesOf(k) ==
    IF k = 0 THEN {<<>>}
    ELSE { h \o t : h \in AnyHistoriesOf(k - 1), t \in Turns(k) \cup {OrphanTurn(k)} }

AnyHistories == UNION { AnyHistoriesOf(k) : k \in 1 .. MaxTurns }

\* a message of a vendor payload: content is a string (lista = FALSE) or a
\* list of content blocks (lista = TRUE)
VendorMsg(role, content, blocks, lista, tool_calls, tool_call_id) ==
    [role |-> role, content |-> content, blocks |-> blocks, lista |-> lista,
     tool_calls |-> tool_calls, tool_call_id |-> tool_call_id]

TextBlock(text) == [type |-> "text", id |-> NoId, text |-> text, is_error |-> FALSE]

ToolUseBlock(tc) == [type |-> "tool_use", id |-> tc.id, text |-> "", is_error |-> FALSE]

ToolResultBlock(msg) ==
    [type |-> "tool_result", id |-> msg.tool_call_id, text |-> msg.content,
     is_error |-> msg.is_error]

\* the tool messages that directly follow position i
RECURSIVE ToolRun(_, _)
ToolRun(messages, i) ==
    IF i <= Len(messages) /\ messages[i].role = "tool"
      THEN <<messages[i]>> \o ToolRun(messages, i + 1)
      ELSE <<>>

\* a user message appended whatever precedes it
AnthropicUserNoMerge(out, msg) ==
    Append(out, VendorMsg("user", msg.content, <<>>, FALSE, <<>>, NoId))

\* a user message is merged into a preceding user message of the payload
AnthropicUser(out, msg) ==
    IF out # <<>> /\ Last(out).role = "user"
      THEN LET prev == Last(out) IN
           [out EXCEPT ![Len(out)] =
              IF ~prev.lista
                THEN [prev EXCEPT !.content = "", !.lista = TRUE,
                                  !.blocks = <<TextBlock(prev.content), TextBlock(msg.content)>>]
                ELSE [prev EXCEPT !.blocks = Append(@, TextBlock(msg.content))]]
      ELSE Append(out, VendorMsg("user", msg.content, <<>>, FALSE, <<>>, NoId))

\* the tool results dropped instead of collected into a user message
RECURSIVE AnthropicConvertDropResults(_, _, _)
AnthropicConvertDropResults(messages, i, out) ==
    IF i > Len(messages) THEN out
    ELSE LET msg == messages[i] IN
         IF msg.role = "user"
           THEN AnthropicConvertDropResults(messages, i + 1, AnthropicUser(out, msg))
         ELSE IF msg.role = "assistant"
           THEN LET blocks == (IF msg.content # "" THEN <<TextBlock(msg.content)>> ELSE <<>>)
                              \o [j \in DOMAIN msg.tool_calls |-> ToolUseBlock(msg.tool_calls[j])]
                IN AnthropicConvertDropResults(messages, i + 1,
                      Append(out, VendorMsg("assistant", "", blocks, blocks # <<>>, <<>>, NoId)))
         ELSE AnthropicConvertDropResults(messages, i + 1, out)

\* AnthropicProvider._convert_messages from position i on
RECURSIVE AnthropicConvert(_, _, _)
AnthropicConvert(messages, i, out) ==
    IF i > Len(messages) THEN out
    ELSE LET msg == messages[i] IN
         IF msg.role = "user"
           THEN AnthropicConvert(messages, i + 1, AnthropicUser(out, msg))
         ELSE IF msg.role = "assistant"
           THEN LET blocks == (IF msg.content # "" THEN <<TextBlock(msg.content)>> ELSE <<>>)
                              \o [j \in DOMAIN msg.tool_calls |-> ToolUseBlock(msg.tool_calls[j])]
                    results == ToolRun(messages, i + 1)
                    comAssistente ==
                       Append(out, VendorMsg("assistant", "", blocks, blocks # <<>>, <<>>, NoId))
                IN AnthropicConvert(messages, i + 1 + Len(results),
                      IF results # <<>>
                        THEN Append(comAssistente,
                               VendorMsg("user", "",
                                  [j \in DOMAIN results |-> ToolResultBlock(results[j])],
                                  TRUE, <<>>, NoId))
                        ELSE comAssistente)
         ELSE AnthropicConvert(messages, i + 1, out)

\* the system message OpenAI and Ollama payloads start with
SystemPrefix(system) ==
    IF system THEN <<VendorMsg("system", "prompt", <<>>, FALSE, <<>>, NoId)>> ELSE <<>>

\* OpenAIProvider._convert_messages and OllamaProvider._convert_messages map
\* message by message; an empty assistant content becomes None (OpenAI) or ""
\* (Ollama); Ollama leaves tool_call_id out when it is empty
ChatMessage(adapter, msg) ==
    IF msg.role = "user"
      THEN <<VendorMsg("user", msg.content, <<>>, FALSE, <<>>, NoId)>>
    ELSE IF msg.role = "assistant"
      THEN <<VendorMsg("assistant",
                       IF msg.content = "" /\ adapter = "openai" THEN NoVal ELSE msg.content,
                       <<>>, FALSE, msg.tool_calls, NoId)>>
    ELSE IF msg.role = "tool"
      THEN <<VendorMsg("tool", msg.content, <<>>, FALSE, <<>>, msg.tool_call_id)>>
    ELSE <<>>

RECURSIVE ChatConvert(_, _, _)
ChatConvert(adapter, messages, i) ==
    IF i > Len(messages) THEN <<>>
    ELSE ChatMessage(adapter, messages[i]) \o ChatConvert(adapter, messages, i + 1)

\* _convert_messages of the adapter
ConvertMessages(adapter, messages, system) ==
    IF adapter = "anthropic" THEN AnthropicConvert(messages, 1, <<>>)
    ELSE SystemPrefix(system) \o ChatConvert(adapter, messages, 1)

\* what the vendor signals as the reason the reply ended: tool/function-call
\* completion, truncation, a plain stop, or nothing at all
Sinais == {"tool", "length", "stop", "ausente"}

\* the replies of a vendor: the number of tool calls in the reply, the signal,
\* and whether the calls carry an id; Ollama has no signal for tool calls and
\* may leave the ids out
Replies(adapter) ==
    IF adapter = "ollama"
      THEN [n_calls : 0 .. MaxToolCalls, sinal : Sinais \ {"tool"}, com_id : BOOLEAN]
      ELSE [n_calls : 0 .. MaxToolCalls, sinal : Sinais, com_id : {TRUE}]

\* the ToolCall ids _parse_response builds; Ollama: tc.get("id", f"call_{len(tool_calls)}")
ParsedCalls(data) ==
    [j \in 1 .. data.n_calls |->
        IF data.com_id THEN <<"reply", j>> ELSE <<"call", j - 1>>]

\* AnthropicProvider._parse_response: data.get("stop_reason", "end_turn")
AnthropicStopReason(data) ==
    IF data.sinal = "tool" THEN "tool_use"
    ELSE IF data.sinal = "length" THEN "max_tokens"
    ELSE "end_turn"

\* OpenAIProvider._parse_response: choice.get("finish_reason", "stop")
OpenAIStopReason(data) ==
    IF data.sinal = "tool" THEN "tool_use"
    ELSE IF data.sinal = "length" THEN "max_tokens"
    ELSE IF data.n_calls > 0 THEN "tool_use" ELSE "end_turn"

\* OllamaProvider._parse_response
OllamaStopReason(data) ==
    IF data.n_calls > 0 THEN "tool_use"
    ELSE IF data.sinal = "length" THEN "max_tokens"
    ELSE "end_turn"

StopReasonOf(adapter, data) ==
    IF adapter = "anthropic" THEN AnthropicStopReason(data)
    ELSE IF adapter = "openai" THEN OpenAIStopReason(data)
    ELSE OllamaStopReason(data)

ParseResponse(adapter, data) ==
    [tool_calls |-> ParsedCalls(data), stop_reason |-> StopReasonOf(adapter, data)]

\* the adapters whose POST goes through _post_with_retry
ComRetry(adapter) == adapter = "anthropic"

\* d_system: whether a system prompt is given; AnthropicProvider sends it
\* outside the converted messages
AdapterInit ==
    /\ d_pc = "begin"
    /\ d_adapter \in Adapters
    /\ d_messages \in AnyHistories
    /\ d_system \in (IF d_adapter = "anthropic" THEN {FALSE} ELSE BOOLEAN)
    /\ d_payload = <<>>
    /\ d_statuses = <<>>
    /\ d_data = NoData
    /\ d_result = NoResult
    /\ AgentIdle
    /\ RetryIdle
    /\ PipeIdle
    /\ ConvIdle
    /\ GateIdle
    /\ SlotIdle
    /\ GenIdle
    /\ StoreIdle

\* "messages": self._convert_messages(...)
AdapterConvert ==
    /\ d_pc = "begin"
    /\ d_payload' = ConvertMessages(d_adapter, d_messages, d_system)
    /\ d_pc' = "post"
    /\ UNCHANGED <<d_adapter, d_messages, d_system, d_statuses, d_data, d_result>>
    /\ UNCHANGED notAdapter

\* _post_with_retry: 429/529 with attempts left, sleep and post again
AdapterRetry ==
    /\ d_pc = "post"
    /\ ComRetry(d_adapter)
    /\ Len(d_statuses) < MAX_RETRIES
    /\ \E status \in Statuses :
         /\ IsOverload(status)
         /\ d_statuses' = Append(d_statuses, status)
    /\ UNCHANGED <<d_pc, d_adapter, d_messages, d_system, d_payload, d_data, d_result>>
    /\ UNCHANGED notAdapter

\* response.raise_for_status() on a status >= 400 that is not retried
AdapterRaise ==
    /\ d_pc = "post"
    /\ Len(d_statuses) <= MAX_RETRIES
    /\ \E status \in Statuses :
         /\ status >= 400
         /\ ~(ComRetry(d_adapter) /\ IsOverload(status) /\ Len(d_statuses) < MAX_RETRIES)
         /\ d_statuses' = Append(d_statuses, status)
    /\ d_pc' = "raised"
    /\ UNCHANGED <<d_adapter, d_messages, d_system, d_payload, d_data, d_result>>
    /\ UNCHANGED notAdapter

\* data = response.json() of a 200 response
AdapterReceive ==
    /\ d_pc = "post"
    /\ Len(d_statuses) <= MAX_RETRIES
    /\ d_statuses' = Append(d_statuses, 200)
    /\ d_data' \in Replies(d_adapter)
    /\ d_pc' = "parse"
    /\ UNCHANGED <<d_adapter, d_messages, d_system, d_payload, d_result>>
    /\ UNCHANGED notAdapter

\* result = self._parse_response(data)
AdapterParse ==
    /\ d_pc = "parse"
    /\ d_result' = ParseResponse(d_adapter, d_data)
    /\ d_pc' = "done"
    /\ UNCHANGED <<d_adapter, d_messages, d_system, d_payload, d_statuses, d_data>>
    /\ UNCHANGED notAdapter

AdapterNext ==
    \/ AdapterConvert
    \/ AdapterRetry
    \/ AdapterRaise
    \/ AdapterReceive
    \/ AdapterParse

SpecAdapter == AdapterInit /\ [][AdapterNext]_vars

----------------------------------------------------------------------------
(* Claims about the provider adapters.                                      *)

IsAssistant(m) == m.role = "assistant"

AssistantPositions(msgs) ==
    SelectSeq([i \in 1 .. Len(msgs) |-> i], LAMBDA i : IsAssistant(msgs[i]))

CallIds(msg) == [j \in DOMAIN msg.tool_calls |-> msg.tool_calls[j].id]

IsToolResult(b) == b.type = "tool_result"

IsToolUse(b) == b.type = "tool_use"

BlockIds(blocks) == [j \in DOMAIN blocks |-> blocks[j].id]

\* the ids of the calls the assistant message of a payload carries
PayloadCallIds(adapter, m) ==
    IF adapter = "anthropic" THEN BlockIds(SelectSeq(m.blocks, IsToolUse))
    ELSE CallIds(m)

\* the ids of the result blocks right after position p of a payload
ResultIds(adapter, payload, p) ==
    IF adapter = "anthropic"
      THEN IF p < Len(payload) /\ payload[p + 1].role = "user"
             THEN BlockIds(SelectSeq(payload[p + 1].blocks, IsToolResult))
             ELSE <<>>
      ELSE LET run == ToolRun(payload, p + 1) IN
           [j \in DOMAIN run |-> run[j].tool_call_id]

Converted == d_pc \in {"post", "raised", "parse", "done"}

\* C14: in the converted history the k-th assistant message carries the ids
\* of the calls of the k-th assistant message of the history, and is directly
\* followed by exactly as many result blocks (Anthropic: tool_result blocks of
\* the next user message; OpenAI/Ollama: tool messages), with the call ids in
\* the same order; none when the assistant message has no calls.
C14_ResultsPaired ==
    (Converted /\ d_messages \in Histories) =>
       LET hp == AssistantPositions(d_messages)
           pp == AssistantPositions(d_payload)
       IN /\ Len(hp) = Len(pp)
          /\ \A k \in DOMAIN hp :
               /\ PayloadCallIds(d_adapter, d_payload[pp[k]]) = CallIds(d_messages[hp[k]])
               /\ ResultIds(d_adapter, d_payload, pp[k]) = CallIds(d_messages[hp[k]])

\* an Anthropic payload where an assistant message with two calls is followed
\* by its two results and then by a user message merged into the same message
C14_Witness ==
    /\ Converted
    /\ d_adapter = "anthropic"
    /\ \E p \in DOMAIN d_payload :
         /\ d_payload[p].role = "assistant"
         /\ Len(SelectSeq(d_payload[p].blocks, IsToolUse)) = 2
         /\ p < Len(d_payload)
         /\ Len(d_payload[p + 1].blocks) = 3
         /\ ResultIds(d_adapter, d_payload, p) = BlockIds(SelectSeq(d_payload[p].blocks, IsToolUse))

\* the normalized stop reason of a reply: tool use when the reply has a tool
\* call or the vendor signals tool-call completion, else max tokens when the
\* vendor signals truncation, else end of turn
StopReasonEsperado(data) ==
    IF data.n_calls > 0 \/ data.sinal = "tool" THEN "tool_use"
    ELSE IF data.sinal = "length" THEN "max_tokens"
    ELSE "end_turn"

\* C16: for every adapter and every reply, the parsed stop_reason is TOOL_USE
\* when the reply has at least one tool call or the vendor signals tool-call
\* completion, MAX_TOKENS when the vendor signals truncation and there are no
\* tool calls, END_TURN otherwise.
C16_StopReason ==
    d_pc = "done" => d_result.stop_reason = StopReasonEsperado(d_data)

\* C20: for each of the three adapters a completion call answered 429 is
\* posted again, up to MAX_RETRIES times: a call fails on a 429 only after
\* MAX_RETRIES + 1 posts.
C20_EveryAdapterRetries ==
    (d_pc = "raised" /\ Last(d_statuses) = 429) => Len(d_statuses) = MAX_RETRIES + 1

----------------------------------------------------------------------------
(* The item-resolution tool: handle_processar_itens_orcamento gathers one   *)
(* _processar_item per item; each runs its search call and its pricing call *)
(* inside `async with _semaphore`.                                          *)

\* most items in one batch
MaxBatch == 7

\* give the permit back: Semaphore.release()
Release(value) == value + 1

\* the permit kept by an item that leaves the section
NoRelease(value) == value

\* __aexit__ of `async with _semaphore`, on every way out of the block
SemaphoreExit(value) == Release(value)

\* the items whose _processar_item is inside the gated section
Inside == {i \in DOMAIN g_pc : g_pc[i] \in {"search", "pricing"}}

GateInit ==
    /\ \E n \in 1 .. MaxBatch : g_pc = [i \in 1 .. n |-> "start"]
    /\ g_value = PERMITS
    /\ AgentIdle
    /\ RetryIdle
    /\ PipeIdle
    /\ ConvIdle
    /\ AdapterIdle
    /\ SlotIdle
    /\ GenIdle
    /\ StoreIdle

\* Semaphore.acquire() with no permit left: the item waits
GateWait(i) ==
    /\ g_pc[i] = "start"
    /\ g_value = 0
    /\ g_pc' = [g_pc EXCEPT ![i] = "waiting"]
    /\ UNCHANGED g_value
    /\ UNCHANGED notGate

\* Semaphore.acquire() takes a permit, at once or after waiting
GateAcquire(i) ==
    /\ g_pc[i] \in {"start", "waiting"}
    /\ g_value > 0
    /\ g_value' = g_value - 1
    /\ g_pc' = [g_pc EXCEPT ![i] = "search"]
    /\ UNCHANGED notGate

\* buscar_com_confianca returns with no melhor_match: early return
GateNoMatch(i) ==
    /\ g_pc[i] = "search"
    /\ g_pc' = [g_pc EXCEPT ![i] = "no_match"]
    /\ g_value' = SemaphoreExit(g_value)
    /\ UNCHANGED notGate

\* buscar_com_confianca returns a match: go on to the price
GateMatch(i) ==
    /\ g_pc[i] = "search"
    /\ g_pc' = [g_pc EXCEPT ![i] = "pricing"]
    /\ UNCHANGED g_value
    /\ UNCHANGED notGate

\* buscar_preco_composicao returns a price or None: return the item
GatePriced(i) ==
    /\ g_pc[i] = "pricing"
    /\ g_pc' = [g_pc EXCEPT ![i] = "returned"]
    /\ g_value' = SemaphoreExit(g_value)
    /\ UNCHANGED notGate

\* the search call or the pricing call raises
GateRaise(i) ==
    /\ g_pc[i] \in {"search", "pricing"}
    /\ g_pc' = [g_pc EXCEPT ![i] = "raised"]
    /\ g_value' = SemaphoreExit(g_value)
    /\ UNCHANGED notGate

GateNext ==
    \E i \in DOMAIN g_pc :
        \/ GateWait(i)
        \/ GateAcquire(i)
        \/ GateNoMatch(i)
        \/ GateMatch(i)
        \/ GatePriced(i)
        \/ GateRaise(i)

SpecGate == GateInit /\ [][GateNext]_vars

\* C19: at most PERMITS items are inside the gated section, and every permit
\* not held by an item inside is available: an item that left the section,
\* by returning a priced item, by the early return or by raising, holds none.
C19_Gate ==
    /\ Cardinality(Inside) <= PERMITS
    /\ g_value = PERMITS - Cardinality(Inside)

\* one item raised, one returned early, and the remaining items fill the
\* section with one more waiting or done
C19_Witness ==
    /\ \E i \in DOMAIN g_pc : g_pc[i] = "raised"
    /\ \E i \in DOMAIN g_pc : g_pc[i] = "no_match"
    /\ Cardinality(Inside) = PERMITS
    /\ g_value = 0

----------------------------------------------------------------------------
(* Further claims about the conversational flow *)

NumEventos(ev, etapa) == Cardinality({i \in DOMAIN ev : ev[i].etapa = etapa})

\* the step lets the request at slot r emit one more event of the kind
EmiteConv(r, etapa) == NumEventos(c_ev'[r], etapa) > NumEventos(c_ev[r], etapa)

\* a step that emits a question asks for the pending field that comes first
\* in the order uf, tipo_construtivo, padrao_construtivo
C21_Passo ==
    \A r \in Slots :
       EmiteConv(r, "question") =>
          Last(c_ev'[r]).campo = PrimeiroPendente(c_sessao'.campos_pendentes, 1)

\* C21: a run emits at most one question, the question names one field, and
\* that field is the first pending one in the fixed order uf, tipo_construtivo,
\* padrao_construtivo, however the fields became pending.
C21_OneQuestionInOrder ==
    [](\A r \in Slots : NumEventos(c_ev[r], "question") <= 1) /\ [][C21_Passo]_vars

\* C22: in every run an `error` or `complete` event is the last event of the
\* run, and a run emits at most one of them.
C22_TerminalEventLast ==
    \A r \in Slots :
       /\ \A i \in DOMAIN c_ev[r] :
             c_ev[r][i].etapa \in {"error", "complete"} => i = Len(c_ev[r])
       /\ NumEventos(c_ev[r], "error") + NumEventos(c_ev[r], "complete") <= 1

\* the fields of a session that carry a default nobody confirmed
DefaultsAbertos(sessao) ==
    { n \in DOMAIN sessao.campos :
        sessao.campos[n].fonte = "padrao" /\ ~sessao.campos[n].confirmado }

\* confirm_defaults ends its run, and at most one is emitted per run
C23_UmPorRodada ==
    \A r \in Slots :
       /\ NumEventos(c_ev[r], "confirm_defaults") <= 1
       /\ \A i \in DOMAIN c_ev[r] :
             c_ev[r][i].etapa = "confirm_defaults" =>
                i = Len(c_ev[r]) /\ c_req[r].pc = "done"

\* the step takes `confirmar` for the request at slot r while the session
\* is in phase fase: step 3 runs right after step 2 when there is no answer
\* to store, and after the yield of field_updated when there is one
ConfirmaEm(r, fase) ==
    /\ \/ c_req[r].pc = "s2" /\ c_req[r].resposta = SemResposta
       \/ c_req[r].pc = "s3"
    /\ c_req'[r].pc # c_req[r].pc
    /\ c_req[r].confirmacao = "confirmar"
    /\ c_sessao.existe
    /\ c_sessao.fase = fase

ConfirmaEmColeta(r) == ConfirmaEm(r, "coleta")

C23_Passo ==
    /\ \A r \in Slots :
          EmiteConv(r, "confirm_defaults") =>
             /\ c_sessao'.campos_pendentes = <<>>
             /\ c_sessao'.fase = "coleta"
             /\ Last(c_ev'[r]).dados.defaults = DefaultsAbertos(c_sessao')
             /\ DefaultsAbertos(c_sessao') # {}
    /\ \A r \in Slots : ConfirmaEmColeta(r) => DefaultsAbertos(c_sessao') = {}
    /\ (c_started' = c_started /\ c_sessao.existe) =>
          \A n \in DOMAIN c_sessao.campos :
             n \notin DefaultsAbertos(c_sessao) => n \notin DefaultsAbertos(c_sessao')

\* C23: confirm_defaults is emitted only by a step that leaves no required
\* field pending in phase coleta, at most once per run and as its last event,
\* and lists every field with fonte padrao and confirmado false; `confirmar`
\* taken in phase coleta leaves no such field, and a field that is held
\* without being an unconfirmed default never becomes one, so no later run
\* asks to confirm it again.
C23_DefaultsInOneBatch == []C23_UmPorRodada /\ [][C23_Passo]_vars

\* the second run of the guided script ended: month and year, listed together
\* by the first run, were confirmed by the one `confirmar`
C23_Witness ==
    /\ RoteiroFim(2)
    /\ c_sessao.campos["mes_referencia"].fonte = "confirmado"
    /\ c_sessao.campos["ano_referencia"].fonte = "confirmado"
    /\ DefaultsAbertos(c_sessao) = {}
    /\ NumEventos(c_ev[1], "confirm_defaults") = 0

C24_Passo ==
    /\ (c_sessao'.existe /\ c_sessao'.fase = "processamento"
          /\ ~(c_sessao.existe /\ c_sessao.fase = "processamento")) =>
          \E r \in Slots : ConfirmaEm(r, "confirmacao")
    /\ (c_sessao'.existe /\ c_sessao'.fase = "confirmacao"
          /\ ~(c_sessao.existe /\ c_sessao.fase = "confirmacao")) =>
          /\ \E r \in Slots : EmiteConv(r, "confirm_summary")
          /\ c_sessao'.campos_pendentes = <<>>
          /\ DefaultsAbertos(c_sessao') = {}
    /\ \A r \in Slots : EmiteConv(r, "load_base") => c_marcos = "confirmado"

\* C24: the phase becomes processamento only in a step that takes `confirmar`
\* while the phase is confirmacao; it becomes confirmacao only in a step that
\* emits confirm_summary and leaves no pending field and no unconfirmed
\* default; and whenever a request starts the pipeline, the session has shown
\* its summary and acknowledged a `confirmar` after it.
C24_SummaryBeforeProcessing == [][C24_Passo]_vars

\* the third run of the guided script started the pipeline
C24_Witness ==
    /\ c_roteiro = 3
    /\ c_marcos = "confirmado"
    /\ c_sessao.fase = "processamento"
    /\ c_req[1].pc = "pipeline"

----------------------------------------------------------------------------
(* Further claims about the provider adapters *)

IsUser(m) == m.role = "user"

IsText(b) == b.type = "text"

\* the user texts a payload message carries: its string content, or its text
\* blocks
NumTextos(m) == IF m.lista THEN Len(SelectSeq(m.blocks, IsText)) ELSE 1

RECURSIVE SomaTextos(_)
SomaTextos(msgs) ==
    IF msgs = <<>> THEN 0 ELSE NumTextos(Head(msgs)) + SomaTextos(Tail(msgs))

\* C25: in the history converted for Anthropic no two adjacent messages both
\* have role user, whatever the input history (a user message after tool
\* results, adjacent user messages, tool messages answering no assistant
\* message); every user message of the input is kept as a string or a text
\* block of a user message, so adjacent user content is merged, not dropped.
C25_NoConsecutiveUsers ==
    (Converted /\ d_adapter = "anthropic") =>
       /\ \A p \in 1 .. Len(d_payload) - 1 :
             ~(IsUser(d_payload[p]) /\ IsUser(d_payload[p + 1]))
       /\ SomaTextos(SelectSeq(d_payload, IsUser)) = Len(SelectSeq(d_messages, IsUser))

\* two user messages around a tool message that answers nothing end up as
\* one user message of two text blocks
C25_Witness ==
    /\ Converted
    /\ d_adapter = "anthropic"
    /\ Len(d_messages) = 3
    /\ IsUser(d_messages[1])
    /\ d_messages[2].role = "tool"
    /\ IsUser(d_messages[3])
    /\ Len(d_payload) = 1
    /\ d_payload[1].lista
    /\ Len(d_payload[1].blocks) = 2

----------------------------------------------------------------------------
(* Further claims about the pipeline *)

\* the entry of the result for item i of the structure: under the stage of
\* the item, at the item's rank among the items of that stage
ItemNoResultado(i) ==
    LET nome == p_itens[i].etapa_nome
        k == CHOOSE k \in DOMAIN p_resultado.etapas : p_resultado.etapas[k].nome = nome
        pos == Cardinality({ j \in 1 .. i : p_itens[j].etapa_nome = nome })
    IN p_resultado.etapas[k].itens[pos]

TemMatch(i) == p_busca[i].kind = "match"

\* the code matched for item i has a price in the price map
TemPreco(i) == TemMatch(i) /\ p_precos[p_busca[i].codigo].found

\* C26: in the result, an item with a match whose code has a price has
\* preco_total = preco_unitario x (item quantity x requested units), the unit
\* price being the cost without payroll relief or else the one with it, and no
\* problema; an item with a match and no price has both prices 0 and the
\* missing-price problema; an item with no match has both prices 0 and the
\* missing-composition problema.
C26_JoinRule ==
    Synthesized =>
       \A i \in DOMAIN p_itens :
          LET it == ItemNoResultado(i) IN
          /\ TemPreco(i) =>
                /\ it.preco_unitario \in { p_precos[p_busca[i].codigo].sem,
                                           p_precos[p_busca[i].codigo].com }
                /\ it.preco_total = it.preco_unitario * (p_itens[i].quantidade * p_unidades)
                /\ it.problema = NoVal
          /\ (TemMatch(i) /\ ~TemPreco(i)) =>
                /\ it.preco_unitario = 0
                /\ it.preco_total = 0
                /\ it.problema = "Preco nao encontrado para UF/data"
          /\ ~TemMatch(i) =>
                /\ it.preco_unitario = 0
                /\ it.preco_total = 0
                /\ it.problema = "Composicao SINAPI nao encontrada"

\* two items of one stage for MaxUnits units: the first matched and priced,
\* the second matched without a price
C26_Witness ==
    /\ Synthesized
    /\ p_unidades = MaxUnits
    /\ Len(p_itens) = 2
    /\ p_itens[1].etapa_nome = p_itens[2].etapa_nome
    /\ p_itens[1].quantidade = MaxQty
    /\ TemPreco(1)
    /\ ItemNoResultado(1).preco_total = 3 * MaxQty * MaxUnits
    /\ TemMatch(2)
    /\ ~TemPreco(2)
    /\ ItemNoResultado(2).problema = "Preco nao encontrado para UF/data"

----------------------------------------------------------------------------
(* Further claims about the agent loop *)

\* C27: a run that ended with `error` (complete_with_tools raised at some
\* pass, or the iteration cap was hit) emitted exactly one `error` event and
\* left the history it was given, which is the stored session history, as it
\* was before the run; the history differs from what it was before the run
\* only once `complete` was emitted, and then by one user message and one
\* assistant message appended.
C27_HistoryIntactOnFailure ==
    /\ (a_pc = "done" /\ Last(a_events) = "error") =>
          /\ Count(a_events, "error") = 1
          /\ a_historico = a_hist0
    /\ (a_historico # a_hist0) =>
          /\ Count(a_events, "complete") = 1
          /\ Len(a_historico) = Len(a_hist0) + 2
          /\ SubSeq(a_historico, 1, Len(a_hist0)) = a_hist0
          /\ a_historico[Len(a_hist0) + 1].role = "user"
          /\ a_historico[Len(a_hist0) + 2].role = "assistant"
    /\ (Count(a_events, "complete") = 0) => a_historico = a_hist0

\* complete_with_tools raised at the third pass, after two passes whose tool
\* calls were executed, on a session that already had a history
C27_Witness ==
    /\ a_pc = "done"
    /\ Last(a_events) = "error"
    /\ a_calls = 3
    /\ a_execs >= 2
    /\ a_hist0 # <<>>
    /\ Len(a_messages) > Len(a_hist0) + 3

----------------------------------------------------------------------------
(* The staging slot of app/core/tools.py: handle_processar_itens_orcamento *)
(* stores its grouped result in the module global                          *)
(* _ultimo_orcamento_processado, handle_salvar_orcamento reads it, sends   *)
(* it to the Spring client and clears it.  The handlers are coroutines of  *)
(* one event loop: the tool calls of different agent sessions interleave   *)
(* at each await, and the global is shared by all of them.                 *)

\* most tool calls started in one behaviour
MaxOps == 3
\* most items in the argument of one processar_itens_orcamento call
MaxSlotItems == 2

\* item_result["etapa"] of an item: a stage name, or empty
EtapaTags == {"Fundacao", ""}

\* the item lists call number b may be given; an item's name tells the call
\* and the position it came from
ItensDaChamada(b) ==
    UNION { { [j \in 1 .. n |-> [etapa |-> f[j], nome |-> <<b, j>>]] :
                f \in [1 .. n -> EtapaTags] } :
            n \in 0 .. MaxSlotItems }

\* etapas_dados.setdefault(etapa_nome, []).append(...) over the results, then
\* the list of stages in insertion order
RECURSIVE AgruparPorEtapa(_, _, _)
AgruparPorEtapa(itens, j, etapas) ==
    IF j > Len(itens) THEN etapas
    ELSE LET nome == IF itens[j].etapa = "" THEN "Geral" ELSE itens[j].etapa
         IN AgruparPorEtapa(itens, j + 1,
               IF \E k \in DOMAIN etapas : etapas[k].nome = nome
                 THEN [k \in DOMAIN etapas |->
                         IF etapas[k].nome = nome
                           THEN [etapas[k] EXCEPT !.itens = Append(@, itens[j].nome)]
                           ELSE etapas[k]]
                 ELSE Append(etapas, [nome |-> nome, itens |-> <<itens[j].nome>>]))

\* a slot that queues the batches instead of keeping the last one
SlotStageAppend(slot, batch) == slot \o batch

\* _ultimo_orcamento_processado = [...]
SlotStage(slot, batch) == batch

\* what a call of the Spring client does: a result, None/False on an HTTP
\* status error, or an exception (transport failure)
SpringOutcomes == {"ok", "none", "raise"}

\* the call that staged a stage, read from its first item
LoteDe(etapa_data) == etapa_data.itens[1][1]

\* spring.criar_etapa_orcamento(...) for stage idx of the save's etapas_data
ChamadaEtapa(task, idx) ==
    [save |-> task.id, tipo |-> "etapa", nome |-> task.etapas_data[idx].nome,
     itens |-> <<>>, lote |-> LoteDe(task.etapas_data[idx])]

\* spring.adicionar_itens_etapa(...) for stage idx of the save's etapas_data
ChamadaItens(task, idx) ==
    [save |-> task.id, tipo |-> "itens", nome |-> task.etapas_data[idx].nome,
     itens |-> task.etapas_data[idx].itens, lote |-> LoteDe(task.etapas_data[idx])]

FreeTask(t) == s_tasks[t].pc = "done"

Finished(task, resultado) == [task EXCEPT !.pc = "done", !.resultado = resultado]

SlotInit ==
    /\ SlotIdle
    /\ AgentIdle
    /\ RetryIdle
    /\ PipeIdle
    /\ ConvIdle
    /\ AdapterIdle
    /\ GateIdle
    /\ GenIdle
    /\ StoreIdle

\* handle_processar_itens_orcamento up to its await: an empty item list
\* returns the error at once, otherwise gather is awaited
SlotProcessCall(t) ==
    /\ FreeTask(t)
    /\ Len(s_inicio) < MaxOps
    /\ \E itens \in ItensDaChamada(Len(s_inicio) + 1) :
         LET task == [NoTask EXCEPT !.kind = "processar", !.id = Len(s_inicio) + 1,
                                    !.itens = itens]
         IN s_tasks' = [s_tasks EXCEPT ![t] =
                          IF itens = <<>>
                            THEN Finished(task, "Erro: nenhum item fornecido")
                            ELSE [task EXCEPT !.pc = "gather"]]
    /\ s_inicio' = Append(s_inicio, s_ultimo)
    /\ UNCHANGED <<s_slot, s_ultimo, s_log>>
    /\ UNCHANGED notSlot

\* gather returns and the grouped result is stored, or gather raises
SlotProcessReturn(t) ==
    /\ s_tasks[t].pc = "gather"
    /\ \/ LET batch == AgruparPorEtapa(s_tasks[t].itens, 1, <<>>) IN
            /\ s_slot' = SlotStage(s_slot, batch)
            /\ s_ultimo' = batch
            /\ s_tasks' = [s_tasks EXCEPT ![t] = Finished(@, "Processados")]
       \/ /\ s_tasks' = [s_tasks EXCEPT ![t] = Finished(@, "raise")]
          /\ UNCHANGED <<s_slot, s_ultimo>>
    /\ UNCHANGED <<s_inicio, s_log>>
    /\ UNCHANGED notSlot

\* handle_salvar_orcamento up to its first await: etapas_data is read from
\* the slot; an empty slot returns the error, otherwise criar_obra is awaited
SlotSaveCall(t) ==
    /\ FreeTask(t)
    /\ Len(s_inicio) < MaxOps
    /\ LET task == [NoTask EXCEPT !.kind = "salvar", !.id = Len(s_inicio) + 1,
                                  !.etapas_data = s_slot]
       IN s_tasks' = [s_tasks EXCEPT ![t] =
                        IF s_slot = <<>>
                          THEN Finished(task, "Erro: nenhum orcamento processado")
                          ELSE [task EXCEPT !.pc = "obra"]]
    /\ s_inicio' = Append(s_inicio, s_ultimo)
    /\ UNCHANGED <<s_slot, s_ultimo, s_log>>
    /\ UNCHANGED notSlot

\* criar_obra returns: on a result, criar_orcamento is awaited
SlotSaveObra(t) ==
    /\ s_tasks[t].pc = "obra"
    /\ \E r \in SpringOutcomes :
         s_tasks' = [s_tasks EXCEPT ![t] =
                       IF r = "ok" THEN [@ EXCEPT !.pc = "orcamento"]
                       ELSE IF r = "none" THEN Finished(@, "Erro: falha ao criar obra")
                       ELSE Finished(@, "raise")]
    /\ UNCHANGED <<s_slot, s_ultimo, s_inicio, s_log>>
    /\ UNCHANGED notSlot

\* criar_orcamento returns: on a result, the loop over etapas_data starts
\* with criar_etapa_orcamento for the first stage
SlotSaveOrcamento(t) ==
    /\ s_tasks[t].pc = "orcamento"
    /\ \E r \in SpringOutcomes :
         IF r = "ok"
           THEN /\ s_tasks' = [s_tasks EXCEPT ![t] = [@ EXCEPT !.pc = "etapa", !.idx = 1]]
                /\ s_log' = Append(s_log, ChamadaEtapa(s_tasks[t], 1))
           ELSE /\ s_tasks' = [s_tasks EXCEPT ![t] =
                                 IF r = "none"
                                   THEN Finished(@, "Erro: falha ao criar orcamento")
                                   ELSE Finished(@, "raise")]
                /\ UNCHANGED s_log
    /\ UNCHANGED <<s_slot, s_ultimo, s_inicio>>
    /\ UNCHANGED notSlot

\* the loop goes on after stage idx: criar_etapa_orcamento for the next
\* stage, or after the last one the slot is cleared and the save returns
SlotSeguir(t) ==
    LET task == s_tasks[t] IN
    IF task.idx < Len(task.etapas_data)
      THEN /\ s_tasks' = [s_tasks EXCEPT ![t] = [@ EXCEPT !.pc = "etapa", !.idx = @ + 1]]
           /\ s_log' = Append(s_log, ChamadaEtapa(task, task.idx + 1))
           /\ UNCHANGED s_slot
      ELSE /\ s_tasks' = [s_tasks EXCEPT ![t] = Finished(@, "Salvo")]
           /\ s_slot' = <<>>
           /\ UNCHANGED s_log

\* criar_etapa_orcamento returns: on a result the items are sent, on None the
\* stage is skipped
SlotSaveEtapa(t) ==
    /\ s_tasks[t].pc = "etapa"
    /\ \E r \in SpringOutcomes :
         IF r = "ok"
           THEN /\ s_tasks' = [s_tasks EXCEPT ![t] = [@ EXCEPT !.pc = "itens"]]
                /\ s_log' = Append(s_log, ChamadaItens(s_tasks[t], s_tasks[t].idx))
                /\ UNCHANGED s_slot
           ELSE IF r = "none"
             THEN SlotSeguir(t)
             ELSE /\ s_tasks' = [s_tasks EXCEPT ![t] = Finished(@, "raise")]
                  /\ UNCHANGED <<s_slot, s_log>>
    /\ UNCHANGED <<s_ultimo, s_inicio>>
    /\ UNCHANGED notSlot

\* adicionar_itens_etapa returns True or False, or raises
SlotSaveItens(t) ==
    /\ s_tasks[t].pc = "itens"
    /\ \E r \in SpringOutcomes :
         IF r = "raise"
           THEN /\ s_tasks' = [s_tasks EXCEPT ![t] = Finished(@, "raise")]
                /\ UNCHANGED <<s_slot, s_log>>
           ELSE SlotSeguir(t)
    /\ UNCHANGED <<s_ultimo, s_inicio>>
    /\ UNCHANGED notSlot

SlotNext ==
    \/ \E t \in Tasks : SlotProcessCall(t)
    \/ \E t \in Tasks : SlotProcessReturn(t)
    \/ \E t \in Tasks : SlotSaveCall(t)
    \/ \E t \in Tasks : SlotSaveObra(t)
    \/ \E t \in Tasks : SlotSaveOrcamento(t)
    \/ \E t \in Tasks : SlotSaveEtapa(t)
    \/ \E t \in Tasks : SlotSaveItens(t)

SpecSlot == SlotInit /\ [][SlotNext]_vars

----------------------------------------------------------------------------
(* Claims about the staging slot *)

\* the calls save number k has sent, in order
ChamadasDe(k) == SelectSeq(s_log, LAMBDA e : e.save = k)

\* what was sent comes from the batch the last completed processar call had
\* staged when the save was called: each stage call names a stage of that
\* batch, each item call carries the items of that stage
C28_DoUltimoLote ==
    \A n \in DOMAIN s_log :
       LET e == s_log[n]
           lote == s_inicio[e.save]
       IN \E k \in DOMAIN lote :
             /\ lote[k].nome = e.nome
             /\ e.tipo = "itens" => e.itens = lote[k].itens

\* a save that ran to its end has called criar_etapa_orcamento once for each
\* stage of that batch, in order, and sent items for no stage twice
C28_LoteInteiro ==
    \A t \in Tasks :
       (s_tasks[t].kind = "salvar" /\ s_tasks[t].resultado = "Salvo") =>
          LET lote == s_inicio[s_tasks[t].id]
              etapas == SelectSeq(ChamadasDe(s_tasks[t].id), LAMBDA e : e.tipo = "etapa")
              itens == SelectSeq(ChamadasDe(s_tasks[t].id), LAMBDA e : e.tipo = "itens")
          IN /\ lote # <<>>
             /\ [k \in DOMAIN etapas |-> etapas[k].nome] = [k \in DOMAIN lote |-> lote[k].nome]
             /\ \A a, b \in DOMAIN itens : itens[a].nome = itens[b].nome => a = b

\* the slot holds nothing, or the batch of the last completed processar call
\* and nothing of an earlier one
C28_SoOUltimo == s_slot = <<>> \/ s_slot = s_ultimo

\* a processar call with an empty item list returns at once and leaves the
\* slot as it was
C28_Passo ==
    \A t \in Tasks :
       (/\ s_tasks'[t] # s_tasks[t]
        /\ s_tasks'[t].kind = "processar"
        /\ s_tasks'[t].itens = <<>>) =>
          /\ s_tasks'[t].pc = "done"
          /\ s_slot' = s_slot
          /\ s_ultimo' = s_ultimo

\* C28: salvar_orcamento sends the stages and items of the batch staged by
\* the processar_itens_orcamento call that completed last before the save was
\* called, and of no other; the slot never holds anything of an earlier
\* batch; a processar_itens_orcamento call with an empty item list leaves the
\* slot unchanged.
C28_SingleSlot ==
    [](C28_DoUltimoLote /\ C28_LoteInteiro /\ C28_SoOUltimo) /\ [][C28_Passo]_vars

\* two batches were staged one after the other and the save that followed
\* ran to its end: it sent the second batch
C28_Witness ==
    /\ Len(s_inicio) = 3
    /\ \E t \in Tasks :
          /\ s_tasks[t].kind = "salvar"
          /\ s_tasks[t].id = 3
          /\ s_tasks[t].resultado = "Salvo"
    /\ s_log # <<>>
    /\ \A n \in DOMAIN s_log : s_log[n].lote = 2
    /\ s_inicio[2] # <<>>
    /\ s_slot = <<>>

\* C29: the stages and items of one staged batch are sent to the Spring
\* client by at most one salvar_orcamento call.
C29_PersistedAtMostOnce ==
    \A a, b \in DOMAIN s_log :
       s_log[a].lote = s_log[b].lote => s_log[a].save = s_log[b].save

----------------------------------------------------------------------------
(* gerar_estrutura_orcamento (app/core/budget_generator.py): one call of   *)
(* the provider with the chain-of-thought prompt, and on a reply without   *)
(* JSON one recursive invocation with usar_cot=False.                      *)

\* length of the script of provider replies
MaxGenReplies == 3

\* what llm_provider.complete does at one call: it raises, or replies with a
\* text that holds no JSON, JSON that is empty ({}), JSON that fails
\* validar_estrutura, JSON of a shape on which validar_estrutura or
\* converter_para_estrutura raises, or a valid structure
GenReplies == {"raise", "sem_json", "json_vazio", "invalida", "malformada", "valida"}

\* extrair_json_estrutura: None when no strategy yields JSON, else the value
extrair_json_estrutura(reply) ==
    IF reply = "sem_json" THEN [achado |-> FALSE, vazio |-> TRUE]
    ELSE [achado |-> TRUE, vazio |-> reply = "json_vazio"]

\* `not dados_json`
SemJson(reply) ==
    LET dados_json == extrair_json_estrutura(reply)
    IN ~dados_json.achado \/ dados_json.vazio

GenInit ==
    /\ e_pc = "call"
    /\ e_usar_cot \in BOOLEAN
    /\ e_replies \in [1 .. MaxGenReplies -> GenReplies]
    /\ e_prompts = <<>>
    /\ e_result = NoEstrutura
    /\ AgentIdle
    /\ RetryIdle
    /\ PipeIdle
    /\ ConvIdle
    /\ AdapterIdle
    /\ GateIdle
    /\ SlotIdle
    /\ StoreIdle

\* the reply to the call in flight
GenReply == e_replies[Len(e_prompts)]

GenReturn(sucesso, erro) ==
    /\ e_result' = [sucesso |-> sucesso, erro |-> erro]
    /\ e_pc' = "done"
    /\ UNCHANGED <<e_usar_cot, e_replies, e_prompts>>

\* the prompt is chosen by usar_cot and llm_provider.complete is awaited
GenCall ==
    /\ e_pc = "call"
    /\ Len(e_prompts) < MaxGenReplies
    /\ e_prompts' = Append(e_prompts, IF e_usar_cot THEN "cot" ELSE "simples")
    /\ e_pc' = "await"
    /\ UNCHANGED <<e_usar_cot, e_replies, e_result>>
    /\ UNCHANGED notGen

\* complete raises: sucesso=False is returned
GenLLMError ==
    /\ e_pc = "await"
    /\ GenReply = "raise"
    /\ GenReturn(FALSE, "Erro ao chamar LLM")
    /\ UNCHANGED notGen

\* the retry that keeps the chain-of-thought prompt
GenFallbackCot ==
    /\ e_pc = "await"
    /\ GenReply # "raise"
    /\ SemJson(GenReply)
    /\ e_usar_cot
    /\ e_pc' = "call"
    /\ UNCHANGED <<e_usar_cot, e_replies, e_prompts, e_result>>
    /\ UNCHANGED notGen

\* no JSON in the reply to the chain-of-thought prompt: the function calls
\* itself with usar_cot=False and returns what that invocation returns
GenFallback ==
    /\ e_pc = "await"
    /\ GenReply # "raise"
    /\ SemJson(GenReply)
    /\ e_usar_cot
    /\ e_usar_cot' = FALSE
    /\ e_pc' = "call"
    /\ UNCHANGED <<e_replies, e_prompts, e_result>>
    /\ UNCHANGED notGen

\* no JSON in the reply to the simple prompt: sucesso=False is returned
GenNoJson ==
    /\ e_pc = "await"
    /\ GenReply # "raise"
    /\ SemJson(GenReply)
    /\ ~e_usar_cot
    /\ GenReturn(FALSE, "Nao foi possivel extrair JSON da resposta do LLM")
    /\ UNCHANGED notGen

\* validar_estrutura rejects the JSON
GenInvalid ==
    /\ e_pc = "await"
    /\ GenReply = "invalida"
    /\ GenReturn(FALSE, "Estrutura invalida")
    /\ UNCHANGED notGen

\* validar_estrutura or converter_para_estrutura raises on the JSON (a stage
\* or an item that is not an object, a quantity that is not a number)
GenMalformed ==
    /\ e_pc = "await"
    /\ GenReply = "malformada"
    /\ e_pc' = "raised"
    /\ UNCHANGED <<e_usar_cot, e_replies, e_prompts, e_result>>
    /\ UNCHANGED notGen

\* the structure is converted and returned
GenValid ==
    /\ e_pc = "await"
    /\ GenReply = "valida"
    /\ GenReturn(TRUE, NoVal)
    /\ UNCHANGED notGen

GenNext ==
    \/ GenCall
    \/ GenLLMError
    \/ GenFallback
    \/ GenNoJson
    \/ GenInvalid
    \/ GenMalformed
    \/ GenValid

SpecGen == GenInit /\ [][GenNext]_vars

\* every await of the function returns or raises
SpecGenLive == SpecGen /\ WF_vars(GenNext)

----------------------------------------------------------------------------
(* Claims about the structure generator *)

GenTerminou == e_pc \in {"done", "raised"}

C30_Calls ==
    /\ Len(e_prompts) <= 2
    /\ Len(e_prompts) = 2 =>
          /\ e_prompts = <<"cot", "simples">>
          /\ SemJson(e_replies[1])
          /\ e_replies[1] # "raise"
    /\ (GenTerminou /\ e_prompts # <<>> /\ e_prompts[1] = "cot"
          /\ e_replies[1] # "raise" /\ SemJson(e_replies[1])) =>
          Len(e_prompts) = 2
    /\ (GenTerminou /\ Len(e_prompts) = 2
          /\ (e_replies[2] = "raise" \/ SemJson(e_replies[2]))) =>
          /\ e_pc = "done"
          /\ ~e_result.sucesso
    /\ e_pc = "raised" => e_replies[Len(e_prompts)] = "malformada"
    /\ (e_pc = "done" /\ e_result.sucesso) => e_replies[Len(e_prompts)] = "valida"

\* C30: gerar_estrutura_orcamento calls the provider at most twice; a second
\* call is made only with the simple prompt after a chain-of-thought reply
\* without JSON, and then exactly once; when the second reply has no JSON
\* either (or the second call raises) sucesso=false is returned without a
\* third call; the function raises only on JSON it found and could not
\* validate or convert, never on a provider failure or a reply without JSON;
\* and every invocation ends.
C30_FallbackOnce == []C30_Calls /\ <>GenTerminou

\* both replies without JSON: two calls, the second with the simple prompt,
\* and sucesso=false
C30_Witness ==
    /\ e_pc = "done"
    /\ e_prompts = <<"cot", "simples">>
    /\ e_replies[1] = "sem_json"
    /\ e_replies[2] = "sem_json"
    /\ ~e_result.sucesso

----------------------------------------------------------------------------
(* Claims about the persistence step of the pipeline *)

\* the persistence step of the run failed: _persistir_orcamento raised, or
\* returned without a created budget
PersistFalhou ==
    \/ \E i \in DOMAIN p_events : p_events[i] = "persist_error"
    \/ /\ \E i \in DOMAIN p_events : p_events[i] = "persist_done"
       /\ p_resultado.codigo_orcamento_criado = NoVal

\* C31: a run whose persistence step failed emits no `complete` event after
\* it, and its result is not reported as a success.
C31_PersistFailureAborts ==
    PersistFalhou =>
       /\ \A i \in DOMAIN p_events : p_events[i] = "complete" => p_resultado.sucesso = FALSE
       /\ Last(p_events) # "complete"

----------------------------------------------------------------------------
(* Further claims about the staging slot *)

\* the step ends the processar call of task t with its batch staged
ProcessarTerminou(t) ==
    /\ s_tasks[t].pc = "gather"
    /\ s_tasks'[t].resultado = "Processados"

\* the step ends the save of task t after its loop
SalvarTerminou(t) ==
    /\ s_tasks[t].kind = "salvar"
    /\ s_tasks[t].pc # "done"
    /\ s_tasks'[t].resultado = "Salvo"

C32_Passo ==
    (s_slot' # s_slot) =>
       \/ \E t \in Tasks : ProcessarTerminou(t)
       \/ \E t \in Tasks : SalvarTerminou(t) /\ s_tasks[t].etapas_data = s_slot

\* C32: the staged batch leaves the slot only when a later processar call
\* replaces it or when a save that read that very batch finishes; a save
\* never clears a batch staged after the save read the slot.
C32_NeverLost == [][C32_Passo]_vars

----------------------------------------------------------------------------
(* Claims about the pipeline runs of a session *)

\* the requests whose pipeline run (_processar_orcamento) is in flight
NoPipeline == { r \in Slots : c_req[r].pc \in {"pipeline", "fim"} }

\* the step starts a pipeline run for the request at slot r
IniciaPipeline(r) == EmiteConv(r, "load_base")

\* C33: at most one pipeline run of the session is in flight at any time,
\* and a pipeline run is started only by a request that carries the
\* confirmation of the summary.
C33_OnePipelinePerConfirmation ==
    /\ [](Cardinality(NoPipeline) <= 1)
    /\ [][\A r \in Slots : IniciaPipeline(r) => c_req[r].confirmacao = "confirmar"]_vars

\* the step is the end of the pipeline run of the request at slot r and
\* leaves the session in phase completo
ConcluiFase(r) ==
    /\ c_req[r].pc = "fim"
    /\ c_req'[r].pc = "done"
    /\ c_sessao'.fase = "completo"

\* C34: the phase becomes completo only at the end of a pipeline run that
\* emitted a complete event; a run that ended with an error event does not
\* leave the session in phase completo.
C34_CompleteOnlyAfterComplete ==
    [][\A r \in Slots :
          ConcluiFase(r) => /\ NumEventos(c_ev[r], "complete") > 0
                            /\ Last(c_ev[r]).etapa # "error"]_vars

----------------------------------------------------------------------------
(* Further claims about the persistence step *)

\* C35: whenever a run has emitted persist_done, the result carries the code
\* of the budget that was created.
C35_PersistDoneMeansCreated ==
    (\E i \in DOMAIN p_events : p_events[i] = "persist_done")
        => p_resultado.codigo_orcamento_criado # NoVal

\* C36: a pipeline run processes what the most recent summary showed: when
\* a request starts the pipeline, no field has been given another value
\* since the summary was last shown.
C36_ProcessesWhatWasConfirmed ==
    [][\A r \in Slots : IniciaPipeline(r) => ~c_alterado]_vars

----------------------------------------------------------------------------
(* Claims about the fields of a session *)

\* the required fields the session does not hold
ObrigatoriosAusentes ==
    { n \in SeqToSet(CAMPOS_OBRIGATORIOS) : n \notin DOMAIN c_sessao.campos }

\* the step takes the "Dados incompletos para processamento" branch of step 8
DadosIncompletosEmitido(r) ==
    /\ c_sessao'.fase = "processamento"
    /\ DadosIncompletos(c_sessao')
    /\ c_req[r].pc \in {"s4", "s5"}
    /\ c_req'[r].pc = "done"
    /\ EmiteConv(r, "error")

\* C37: while the phase is confirmacao or processamento the session holds
\* uf, tipo_construtivo and padrao_construtivo, and the incomplete-data
\* error branch is never taken.
C37_RequiredFieldsPresent ==
    /\ []((c_sessao.existe /\ c_sessao.fase \in {"confirmacao", "processamento"})
            => ObrigatoriosAusentes = {})
    /\ [][\A r \in Slots : ~DadosIncompletosEmitido(r)]_vars

\* the processing phase is reached with the three required fields stored,
\* after an extraction replaced the pending list
C37_Witness ==
    /\ c_sessao.existe
    /\ c_sessao.fase = "processamento"
    /\ ObrigatoriosAusentes = {}
    /\ "campos_pendentes" \in c_diretas

----------------------------------------------------------------------------
(* ConversationManager used on its own: any sequence of store operations  *)
(* on one session, within SESSION_TTL                                      *)

MaxStoreOps == 4

\* FonteCampo
FONTES == {"usuario", "padrao", "inferido", "confirmado"}

\* FaseConversacao
FASES == {"coleta", "confirmacao", "processamento", "completo", "erro"}

\* the field names the operations are called with: a required field, a
\* field with a default, and a name criar_sessao does not know
CamposStore == {"uf", "quantidade", "observacao"}

\* a confirmation that sets the flag and leaves the source as it is
marcar_sem_fonte(sessao, campo) ==
    IF ~sessao.existe \/ campo \notin DOMAIN sessao.campos THEN sessao
    ELSE [sessao EXCEPT !.campos[campo].confirmado = TRUE]

marcar_confirmado(sessao, campo) ==
    IF ~sessao.existe \/ campo \notin DOMAIN sessao.campos THEN sessao
    ELSE [sessao EXCEPT !.campos[campo] = [fonte |-> "confirmado", confirmado |-> TRUE]]

\* an operation called with these arguments
Op(nome, campo, arg) == [nome |-> nome, campo |-> campo, arg |-> arg]

StoreInit ==
    /\ StoreIdle
    /\ AgentIdle
    /\ RetryIdle
    /\ PipeIdle
    /\ ConvIdle
    /\ AdapterIdle
    /\ GateIdle
    /\ SlotIdle
    /\ GenIdle

StoreCriarSessao ==
    /\ Len(k_ops) < MaxStoreOps
    /\ ~k_sessao.existe
    /\ k_sessao' = criar_sessao
    /\ k_ops' = Append(k_ops, Op("criar_sessao", NoVal, NoVal))
    /\ UNCHANGED notStore

StoreAtualizarCampo ==
    /\ Len(k_ops) < MaxStoreOps
    /\ \E campo \in CamposStore, fonte \in FONTES :
         /\ k_sessao' = atualizar_campo(k_sessao, campo, fonte)
         /\ k_ops' = Append(k_ops, Op("atualizar_campo", campo, fonte))
    /\ UNCHANGED notStore

StoreMarcarConfirmado ==
    /\ Len(k_ops) < MaxStoreOps
    /\ \E campo \in CamposStore :
         /\ k_sessao' = marcar_confirmado(k_sessao, campo)
         /\ k_ops' = Append(k_ops, Op("marcar_confirmado", campo, NoVal))
    /\ UNCHANGED notStore

StoreConfirmarTodos ==
    /\ Len(k_ops) < MaxStoreOps
    /\ k_sessao' = confirmar_todos_defaults(k_sessao)
    /\ k_ops' = Append(k_ops, Op("confirmar_todos_defaults", NoVal, NoVal))
    /\ UNCHANGED notStore

StoreAtualizarFase ==
    /\ Len(k_ops) < MaxStoreOps
    /\ \E fase \in FASES :
         /\ k_sessao' = atualizar_fase(k_sessao, fase)
         /\ k_ops' = Append(k_ops, Op("atualizar_fase", NoVal, fase))
    /\ UNCHANGED notStore

StoreNext ==
    \/ StoreCriarSessao
    \/ StoreAtualizarCampo
    \/ StoreMarcarConfirmado
    \/ StoreConfirmarTodos
    \/ StoreAtualizarFase

SpecStore == StoreInit /\ [][StoreNext]_vars

\* C38: for every field of the stored session, confirmado is true exactly
\* when fonte is confirmado, after any sequence of store operations; so a
\* field updated with another source is unconfirmed again.
C38_ConfirmedIffSource ==
    \A n \in DOMAIN k_sessao.campos :
        k_sessao.campos[n].confirmado <=> (k_sessao.campos[n].fonte = "confirmado")

\* a field was confirmed by marcar_confirmado and then updated with the
\* source usuario: it is unconfirmed
C38_Witness ==
    \E i, j \in DOMAIN k_ops :
        /\ i < j
        /\ j = Len(k_ops)
        /\ k_ops[i].nome = "marcar_confirmado"
        /\ k_ops[j] = Op("atualizar_campo", k_ops[i].campo, "usuario")
        /\ k_ops[1].nome = "criar_sessao"
        /\ k_ops[i].campo = "quantidade"
        /\ ~k_sessao.campos[k_ops[i].campo].confirmado

----------------------------------------------------------------------------
(* Further claims about the fields of a session *)

\* the fields of a budget request
CamposDoPedido == SeqToSet(CAMPOS_OBRIGATORIOS) \cup CAMPOS_COM_PADRAO

\* C39: the field names stored in a session are names of budget fields, and
\* the unsupported-type notice is not listed in a confirm_defaults payload.
C39_OnlyBudgetFields ==
    /\ DOMAIN c_sessao.campos \subseteq CamposDoPedido
    /\ \A r \in Slots : \A i \in DOMAIN c_ev[r] :
          c_ev[r][i].etapa = "confirm_defaults"
             => TipoNaoSuportado \notin c_ev[r][i].dados.defaults

\* the step is the extraction of the message of the request at slot r
Extraiu(r) == c_req[r].pc = "extract" /\ c_req'[r].pc # "extract" /\ c_sessao'.existe

\* the session holds the field as given by the user
DoUsuario(sessao, campo) ==
    campo \in DOMAIN sessao.campos /\ sessao.campos[campo].fonte = "usuario"

\* C40: a valid month, or a valid year, found in the message is returned as
\* an extracted field with fonte usuario, and so stored by the extraction
\* step, whether or not the other of the two was given.
C40_GivenDateKept ==
    [][\A r \in Slots :
          Extraiu(r) =>
             /\ c_req[r].texto.mes =>
                   /\ "mes_referencia" \in
                         extrair_informacoes_inteligente(c_req[r].texto).campos_extraidos
                   /\ DoUsuario(c_sessao', "mes_referencia")
             /\ c_req[r].texto.ano =>
                   /\ "ano_referencia" \in
                         extrair_informacoes_inteligente(c_req[r].texto).campos_extraidos
                   /\ DoUsuario(c_sessao', "ano_referencia")]_vars

====
